---- MODULE Spec2Model ----
(***************************************************************************)
(* Verification model of the lvmbrain / gort observatory supervisor.       *)
(*                                                                         *)
(* Components modelled, each with its own specification:                   *)
(*   Spec          the Overwatcher main task (overwatcher.py)              *)
(*   SpecDome      the DomeHelper motion serializer (helpers.py);          *)
(*                 SpecDomeClosed starts it with the dome closed           *)
(*   SpecNotifier  NotifierMixIn.notify (helpers/notifier.py)              *)
(*   SpecObserver  Gort.observe_tile and GortObserver (gort.py,            *)
(*                 observer.py)                                            *)
(*   SpecStandards Standards and finish_observation (observer.py)          *)
(*   SpecGoto      Telescope.goto_coordinates (devices/telescope.py)       *)
(*   SpecFanOut    the device-set fan-out (core.py)                        *)
(*   SpecRemote, SpecRemoteCommand                                         *)
(*                 RemoteActor and RemoteCommand (core.py)                 *)
(*   SpecTile      Tile and its coordinates (tile.py)                      *)
(*   SpecActions   DomeHelper.startup / shutdown / open / close under the  *)
(*                 two locks (helpers.py); SpecActionsFair adds fairness   *)
(*   SpecShutdown  the task group of DomeHelper.shutdown (helpers.py)      *)
(*   SpecMonitor   GuiderMonitor (observer.py)                             *)
(***************************************************************************)
EXTENDS Integers, Sequences, FiniteSets, TLC

VARIABLES
    \* ---- Overwatcher main task -------------------------------------------
    state,               \* Overwatcher.state (OverwatcherState)
    previous_state,      \* OverwatcherMainTask.previous_state
    pending_close_dome,  \* OverwatcherMainTask._pending_close_dome
    observer,            \* ObserverOverwatcher fields read by the main task
    dome_labels,         \* enclosure status["dome_status_labels"]
    task_running,        \* FALSE once an exception has escaped task()
    tick,                \* what the last iteration of the while-loop did
    \* ---- DomeHelper -------------------------------------------------------
    dtask,               \* the concurrent callers of the DomeHelper
    move_lock,           \* DomeHelper._move_lock: 0 or the task holding it
    n_open,              \* enclosure open commands sent so far
    \* ---- NotifierMixIn ----------------------------------------------------
    clock,                 \* time()
    notification_history,  \* NotifierMixIn.notification_history
    ncalls,                \* the calls of notify() made so far
    \* ---- Gort.observe_tile / GortObserver ---------------------------------
    otile,                 \* the observe_tile() call in progress
    \* ---- GortObserver during an exposure: Standards, guide task -----------
    std,                   \* Standards, its iterate task and the guide task
    \* ---- Telescope.goto_coordinates ---------------------------------------
    ptg,                   \* the goto_coordinates() call in progress
    \* ---- GortDeviceSet fan-out --------------------------------------------
    fan,                   \* the set operation in progress and its members
    \* ---- RemoteActor / RemoteCommand (core.py) ----------------------------
    ract,                  \* the client, the actor and the calls in progress
    \* ---- Tile (tile.py) ---------------------------------------------------
    tilec,                 \* the Tile being constructed
    \* ---- DomeHelper.startup / shutdown ------------------------------------
    act,                   \* DomeHelper._action_lock and the callers
    grp,                   \* the task group of one DomeHelper.shutdown()
    \* ---- GuiderMonitor (observer.py) -------------------------------------
    gmon                   \* GuiderMonitor: its data frame and its task

owVars == <<state, previous_state, pending_close_dome, observer, dome_labels,
            task_running, tick>>

domeVars == <<dtask, move_lock, n_open>>

notVars == <<clock, notification_history, ncalls>>

obsVars == <<otile>>

libVars == <<std, ptg, fan, ract, tilec, act, grp, gmon>>

vars == <<state, previous_state, pending_close_dome, observer, dome_labels,
          task_running, tick, dtask, move_lock, n_open,
          clock, notification_history, ncalls, otile, std, ptg, fan, ract,
          tilec, act, grp, gmon>>

(***************************************************************************)
(* DomeStatus and DomeHelper.status                                        *)
(***************************************************************************)

\* Label sets the enclosure can report.
DomeLabelSets ==
    { {}, {"OPEN"}, {"CLOSED"}, {"OPEN", "MOVING"}, {"CLOSED", "MOVING"},
      {"MOTOR_OPENING", "MOVING"}, {"MOTOR_CLOSING", "MOVING"} }

\* Label sets the main task distinguishes through is_closing.
SeenLabelSets == { {"OPEN"}, {"CLOSED"}, {"MOTOR_CLOSING", "MOVING"} }

\* DomeHelper.status: an enum.Flag value is modelled as its set of members.
status(labels) ==
    IF "MOTOR_OPENING" \in labels THEN {"OPENING", "MOVING"}
    ELSE IF "MOTOR_CLOSING" \in labels THEN {"CLOSING", "MOVING"}
    ELSE IF "OPEN" \in labels
         THEN IF "MOVING" \in labels THEN {"OPENING", "MOVING"} ELSE {"OPEN"}
    ELSE IF "CLOSED" \in labels
         THEN IF "MOVING" \in labels THEN {"CLOSING", "MOVING"} ELSE {"CLOSED"}
    ELSE {"UNKNOWN"}

\* DomeHelper.is_opening
is_opening(labels) ==
    "OPENING" \in status(labels) \/ "OPEN" \in status(labels)

\* DomeHelper.is_closing
is_closing(labels) ==
    "CLOSING" \in status(labels) \/ "CLOSED" \in status(labels)

(***************************************************************************)
(* Overwatcher main task                                                   *)
(***************************************************************************)

\* time() as read by handle_daytime.
NowValues == {1000}

\* Values of observer.next_exposure_completes (0: no exposure end known).
ExposureCompletes == {0, 1250, 1300, 1400}

\* Threshold of handle_daytime for finishing the exposure gracefully.
GracefulWindow == 300

\* asyncio.sleep at the end of every iteration and after an error.
TickDelay == 5
ErrorDelay == 30

OverwatcherState0 ==
    [enabled |-> FALSE, observing |-> FALSE, calibrating |-> FALSE,
     night |-> FALSE, safe |-> FALSE]

\* copy(ow.state): night is the only field of the copy that is ever read.
Copy(st) == [night |-> st.night]

\* Answers of the notification API to POST /notifications/create.
ApiResponses == {"200", "500", "unreachable"}

\* Outcome of NotifierMixIn.notify as seen by its caller: the POST to the
\* notification API is awaited with no exception handler around it, so
\* notify() raises when the request itself raises.
NotifyRaises(response) == response = "unreachable"

\* A call made by a handler, appended to the context of the iteration.
Called(c, op, arg, ok) ==
    [c EXCEPT !.calls = Append(@, [op |-> op, arg |-> arg, ok |-> ok])]

\* await self.overwatcher.notify(...)
notify(c, e, msg) ==
    IF c.err # "" THEN c
    ELSE LET raised == NotifyRaises(e.api)
         IN [Called(c, "notify", msg, ~raised) EXCEPT
                !.err = IF raised THEN "notify" ELSE ""]

\* await self.overwatcher.observer.stop_observing(immediate=..., reason=...)
stop_observing(c, e, immediate) ==
    IF c.err # "" THEN c
    ELSE IF ~e.stopOk
         THEN [Called(c, "stop_observing", immediate, FALSE) EXCEPT
                  !.err = "stop_observing"]
         ELSE [Called(c, "stop_observing", immediate, TRUE) EXCEPT
                  !.obs.is_cancelling = TRUE]

\* await self.overwatcher.dome.shutdown(retry=True)
dome_shutdown(c, e) ==
    IF c.err # "" THEN c
    ELSE IF ~e.shutdownOk
         THEN [Called(c, "shutdown", TRUE, FALSE) EXCEPT !.err = "shutdown"]
         ELSE [Called(c, "shutdown", TRUE, TRUE) EXCEPT !.labels = {"CLOSED"}]

\* OverwatcherMainTask.handle_unsafe
handle_unsafe(c, e) ==
    LET closed == is_closing(c.labels)
        observing == c.obs.is_observing
        cancelling == c.obs.is_cancelling
    IN  IF ~(~closed \/ observing) THEN c
        ELSE
        LET c1 == notify(c, e, "closing_unsafe")
            c2 == IF observing /\ ~cancelling
                  THEN LET s == stop_observing(c1, e, TRUE)
                       IN  IF c1.err = "" /\ s.err # ""
                           THEN notify(notify([s EXCEPT !.err = ""], e,
                                              "error_stopping"),
                                       e, "close_anyway")
                           ELSE s
                  ELSE c1
        IN  IF ~closed THEN dome_shutdown(c2, e) ELSE c2

\* The night-to-day test guarding the pending-close flag in handle_daytime.
ArmPendingClose(prev, cur) == ~prev.night /\ ~cur.night

\* Mutant of Immediate: the comparison with the threshold is not strict.
Immediate_Mut(exposure_finishes_at, now) ==
    ~(exposure_finishes_at > 0 /\ (exposure_finishes_at - now) <= GracefulWindow)

\* The choice between finishing the exposure and stopping immediately.
Immediate(exposure_finishes_at, now) ==
    ~(exposure_finishes_at > 0 /\ (exposure_finishes_at - now) < GracefulWindow)

\* OverwatcherMainTask.handle_daytime
handle_daytime(c, e, prev, cur) ==
    IF cur.calibrating THEN c
    ELSE IF ~cur.enabled THEN c
    ELSE
    LET c1 == IF ArmPendingClose(prev, cur) THEN [c EXCEPT !.pending = TRUE]
              ELSE c
        observing == c.obs.is_observing
        cancelling == c.obs.is_cancelling
        immediate == Immediate(c.obs.next_exposure_completes, e.now)
        c2 == IF observing /\ ~cancelling
              THEN stop_observing(c1, e, immediate)
              ELSE c1
    IN  IF observing /\ ~cancelling /\ c2.err = "" /\ ~immediate THEN c2
        ELSE IF c2.err # "" THEN c2
        ELSE IF ~observing /\ c2.pending
             THEN LET closed == is_closing(c2.labels)
                      c3 == IF ~closed
                            THEN dome_shutdown(
                                   notify(c2, e, "daytime_closing"), e)
                            ELSE c2
                  IN  IF c3.err # "" THEN c3
                      ELSE [c3 EXCEPT !.pending = FALSE]
             ELSE c2

\* Mutant of handle_disabled: the stop is immediate.
handle_disabled_Mut(c, e) ==
    IF c.obs.is_observing /\ ~c.obs.is_cancelling
    THEN stop_observing(c, e, TRUE)
    ELSE c

\* OverwatcherMainTask.handle_disabled
handle_disabled(c, e) ==
    IF c.obs.is_observing /\ ~c.obs.is_cancelling
    THEN stop_observing(c, e, FALSE)
    ELSE c

\* OverwatcherMainTask.handle_reenable
handle_reenable(c, cur) ==
    IF ~cur.enabled \/ ~c.obs.is_cancelling THEN c
    ELSE [c EXCEPT !.obs.is_cancelling = FALSE]

\* Mutant of Handler: daytime is tested before unsafe.
Handler_Mut(cur, obs) ==
    IF ~cur.night THEN "daytime"
    ELSE IF ~cur.safe THEN "unsafe"
    ELSE IF ~cur.enabled THEN "disabled"
    ELSE IF obs.is_cancelling /\ cur.enabled THEN "reenable"
    ELSE "none"

\* The if/elif chain of task() under self._lock.
Handler(cur, obs) ==
    IF ~cur.safe THEN "unsafe"
    ELSE IF ~cur.night THEN "daytime"
    ELSE IF ~cur.enabled THEN "disabled"
    ELSE IF obs.is_cancelling /\ cur.enabled THEN "reenable"
    ELSE "none"

Dispatch(c, e, prev, cur) ==
    LET h == Handler(cur, c.obs)
    IN  IF h = "unsafe" THEN handle_unsafe(c, e)
        ELSE IF h = "daytime" THEN handle_daytime(c, e, prev, cur)
        ELSE IF h = "disabled" THEN handle_disabled(c, e)
        ELSE IF h = "reenable" THEN handle_reenable(c, cur)
        ELSE c

NoTick ==
    [n |-> 0, handler |-> "none", calls |-> <<>>, caught |-> FALSE,
     escaped |-> FALSE, delay |-> 0, now |-> 0, armed |-> FALSE]

\* The outcomes of the calls of one iteration.  The outcome of a call is
\* drawn only when the iteration makes that call: ops are the calls made
\* when every call succeeds, and a failing call only removes later ones or
\* adds notifications.
Outcomes(ops, now) ==
    [api : IF ops = {} THEN {"200"} ELSE {"200", "unreachable"},
     stopOk : IF "stop_observing" \in ops THEN BOOLEAN ELSE {TRUE},
     shutdownOk : IF "shutdown" \in ops THEN BOOLEAN ELSE {TRUE},
     now : {now}]

\* One iteration of the while-loop of OverwatcherMainTask.task.
Tick ==
    /\ task_running
    /\ \E is_safe, is_night, calibrating \in BOOLEAN, now \in NowValues :
        LET prev == Copy(state)
            cur == [state EXCEPT !.night = is_night, !.safe = is_safe,
                                 !.observing = observer.is_observing,
                                 !.calibrating = calibrating]
            c0 == [calls |-> <<>>, err |-> "", obs |-> observer,
                   labels |-> dome_labels, pending |-> pending_close_dome]
            allOk == [api |-> "200", stopOk |-> TRUE, shutdownOk |-> TRUE,
                      now |-> now]
            made == Dispatch(c0, allOk, prev, cur).calls
            ops == {made[i].op : i \in DOMAIN made}
        IN
        \E e \in Outcomes(ops, now) :
        \E c1 \in {Dispatch(c0, e, prev, cur)} :
        \E c2 \in {IF c1.err # ""
                   THEN notify([c1 EXCEPT !.err = ""], e, "error_main_task")
                   ELSE c1} :
        LET caught == c1.err # ""
            escaped == c2.err # ""
        IN  /\ previous_state' = prev
            /\ state' = cur
            /\ pending_close_dome' = c2.pending
            /\ observer' = c2.obs
            /\ dome_labels' = c2.labels
            /\ task_running' = ~escaped
            /\ tick' = [n |-> 1 - tick.n,
                        handler |-> Handler(cur, observer),
                        calls |-> c2.calls,
                        caught |-> caught,
                        escaped |-> escaped,
                        delay |-> IF escaped THEN 0
                                  ELSE IF caught THEN ErrorDelay + TickDelay
                                  ELSE TickDelay,
                        now |-> now,
                        armed |-> Handler(cur, observer) = "daytime"
                                  /\ ~cur.calibrating /\ cur.enabled
                                  /\ ArmPendingClose(prev, cur)]
            /\ UNCHANGED <<domeVars, notVars, obsVars, libVars>>

\* The observing loop starts or ends an observation (ObserverOverwatcher).
ObserverEnv ==
    /\ \/ /\ ~observer.is_observing
          /\ \E t \in ExposureCompletes :
                observer' = [observer EXCEPT !.is_observing = TRUE,
                                             !.next_exposure_completes = t]
       \/ /\ observer.is_observing
          /\ observer' = [observer EXCEPT !.is_observing = FALSE,
                                          !.next_exposure_completes = 0]
    /\ UNCHANGED <<state, previous_state, pending_close_dome, dome_labels,
                   task_running, tick>>
    /\ UNCHANGED <<domeVars, notVars, obsVars, libVars>>

\* The enable / disable commands of the overwatcher actor.
SetEnabled ==
    /\ state' = [state EXCEPT !.enabled = ~@]
    /\ UNCHANGED <<previous_state, pending_close_dome, observer, dome_labels,
                   task_running, tick>>
    /\ UNCHANGED <<domeVars, notVars, obsVars, libVars>>

\* The dome moves for reasons other than the main task (startup by the
\* observing loop, manual operation).
DomeEnv ==
    /\ \E l \in SeenLabelSets : l # dome_labels /\ dome_labels' = l
    /\ UNCHANGED <<state, previous_state, pending_close_dome, observer,
                   task_running, tick>>
    /\ UNCHANGED <<domeVars, notVars, obsVars, libVars>>

\* restart_on_error = True: the task is started again after it died.
RestartTask ==
    /\ ~task_running
    /\ task_running' = TRUE
    /\ UNCHANGED <<state, previous_state, pending_close_dome, observer,
                   dome_labels, tick>>
    /\ UNCHANGED <<domeVars, notVars, obsVars, libVars>>

InitOW ==
    /\ state = OverwatcherState0
    /\ previous_state = Copy(OverwatcherState0)
    /\ pending_close_dome = FALSE
    /\ observer = [is_observing |-> FALSE, is_cancelling |-> FALSE,
                   next_exposure_completes |-> 0]
    /\ dome_labels \in {{"CLOSED"}, {"OPEN"}}
    /\ task_running = TRUE
    /\ tick = NoTick

\* No caller of the DomeHelper exists.
DomeIdle ==
    /\ dtask = <<>>
    /\ move_lock = 0
    /\ n_open = 0

\* notify() has not been called.
NotifierIdle ==
    /\ clock = 0
    /\ notification_history = <<>>
    /\ ncalls = <<>>

\* observe_tile() has not been called, and none of the library calls
\* modelled further down is in progress.
ObserverIdle ==
    /\ otile = [pc |-> "none"]
    /\ std = [pc |-> "none"]
    /\ ptg = [pc |-> "none"]
    /\ fan = [pc |-> "none"]
    /\ ract = [pc |-> "none"]
    /\ tilec = [pc |-> "none"]
    /\ act = [pc |-> "none"]
    /\ grp = [pc |-> "none"]
    /\ gmon = [pc |-> "none"]

Init == InitOW /\ DomeIdle /\ NotifierIdle /\ ObserverIdle

Next == Tick \/ ObserverEnv \/ SetEnabled \/ DomeEnv \/ RestartTask

Spec == Init /\ [][Next]_vars

(***************************************************************************)
(* Properties of the Overwatcher main task (checked under Spec)            *)
(***************************************************************************)

\* The step is an iteration of the main task's loop.
IsTick == tick'.n # tick.n

\* Positions of the calls of kind op in a call sequence.
CallsOf(calls, op) == {i \in DOMAIN calls : calls[i].op = op}

\* C1: in every iteration where conditions are unsafe and the dome is
\* neither closed nor closing, dome.shutdown is called in that iteration;
\* if an observation is running and not being cancelled, stop_observing
\* (immediate=True) is called before it, and the shutdown is called whether
\* that stop succeeded or raised.
C1_UnsafeTickShutsDown ==
    [][(IsTick /\ tick'.handler = "unsafe" /\ ~is_closing(dome_labels))
        => /\ CallsOf(tick'.calls, "shutdown") # {}
           /\ (observer.is_observing /\ ~observer.is_cancelling)
                => \E i \in CallsOf(tick'.calls, "stop_observing") :
                     /\ tick'.calls[i].arg = TRUE
                     /\ \E j \in CallsOf(tick'.calls, "shutdown") : i < j]_vars

\* C6: the pending-close flag is armed only by an iteration whose previous
\* state was night and whose current state is day.
C6_ArmedOnlyOnNightToDayEdge ==
    tick.armed => (previous_state.night /\ ~state.night)

\* C7 (as stated): on a safe daytime iteration that finds an observation
\* running and not being cancelled, stop_observing is called with
\* immediate=False iff the exposure end is known and less than 300 s away,
\* and with immediate=True otherwise.
StopChoiceAsClaimed ==
    LET fin == observer.next_exposure_completes
        graceful == fin > 0 /\ fin - tick'.now < 300
    IN  /\ Cardinality(CallsOf(tick'.calls, "stop_observing")) = 1
        /\ \A i \in CallsOf(tick'.calls, "stop_observing") :
              tick'.calls[i].arg = ~graceful

C7_DaytimeStopChoice_Original ==
    [][(IsTick /\ tick'.handler = "daytime"
        /\ observer.is_observing /\ ~observer.is_cancelling)
        => StopChoiceAsClaimed]_vars

\* C7 (amended): the same, for iterations in which the overwatcher is
\* enabled and no calibration is running; otherwise the daytime handler
\* returns without calling stop_observing at all.
C7_DaytimeStopChoice ==
    [][(IsTick /\ tick'.handler = "daytime"
        /\ observer.is_observing /\ ~observer.is_cancelling)
        => IF state'.enabled /\ ~state'.calibrating
           THEN StopChoiceAsClaimed
           ELSE tick'.calls = <<>>]_vars

\* C7 witness: a daytime iteration asked for a graceful stop of an exposure
\* ending 250 s later, and (another one) for an immediate stop at 400 s.
C7_Witness ==
    /\ tick.handler = "daytime"
    /\ observer.next_exposure_completes - tick.now = 250
    /\ \E i \in CallsOf(tick.calls, "stop_observing") :
          tick.calls[i].arg = FALSE /\ tick.calls[i].ok

\* C8: a notification that could not be delivered never makes the
\* iteration fail: when every other call of the iteration succeeded, no
\* exception reaches the except clause of task(), and none ever leaves
\* task().
C8_NotifyNeverBreaksTheLoop ==
    /\ ~tick.escaped
    /\ (\A i \in DOMAIN tick.calls :
            tick.calls[i].op # "notify" => tick.calls[i].ok) => ~tick.caught

\* The calls of an iteration other than the notification of the except
\* clause of task().
HandlerCalls(calls) ==
    SelectSeq(calls, LAMBDA call : ~(call.op = "notify"
                                     /\ call.arg = "error_main_task"))

\* C25: every iteration refreshes safe, night, observing and calibrating
\* and then runs at most one handler: unsafe when not safe, else daytime
\* when not night, else disabled when not enabled, else re-enable when the
\* observer is cancelling.  What the iteration does is what that handler
\* alone does: nothing without a handler; only the re-enable handler
\* clears the cancellation; the disabled handler calls nothing but a
\* graceful stop; only the unsafe and daytime handlers shut the dome down
\* or touch the pending-close flag.
C25_HandlerPriority ==
    [][IsTick =>
        LET h == tick'.handler
        IN  /\ state'.observing = observer.is_observing
            /\ state'.enabled = state.enabled
            /\ h = IF ~state'.safe THEN "unsafe"
                   ELSE IF ~state'.night THEN "daytime"
                   ELSE IF ~state'.enabled THEN "disabled"
                   ELSE IF observer.is_cancelling THEN "reenable"
                   ELSE "none"
            /\ h = "none" =>
                  /\ tick'.calls = <<>>
                  /\ observer' = observer
            /\ h = "reenable" =>
                  tick'.calls = <<>> /\ ~observer'.is_cancelling
            /\ (h # "reenable" /\ observer.is_cancelling)
                  => observer'.is_cancelling
            /\ h = "disabled" =>
                  \A i \in DOMAIN HandlerCalls(tick'.calls) :
                     /\ HandlerCalls(tick'.calls)[i].op = "stop_observing"
                     /\ HandlerCalls(tick'.calls)[i].arg = FALSE
            /\ h = "unsafe" =>
                  \A i \in CallsOf(tick'.calls, "stop_observing") :
                     tick'.calls[i].arg = TRUE
            /\ h \notin {"unsafe", "daytime"} =>
                  /\ CallsOf(tick'.calls, "shutdown") = {}
                  /\ dome_labels' = dome_labels
            /\ h # "daytime" => pending_close_dome' = pending_close_dome]_vars

\* An unsafe iteration at daytime with the overwatcher disabled has run
\* the unsafe handler: it stopped the observation immediately and shut the
\* dome down.
C25_Witness ==
    /\ tick.handler = "unsafe"
    /\ ~state.safe /\ ~state.night /\ ~state.enabled
    /\ \E i \in CallsOf(tick.calls, "stop_observing") : tick.calls[i].arg = TRUE
    /\ CallsOf(tick.calls, "shutdown") # {}

\* The call of dome.shutdown succeeded.
ShutdownDone(calls) == \E i \in CallsOf(calls, "shutdown") : calls[i].ok

\* C26: a daytime iteration shuts the dome down only when the observer is
\* not observing, no calibration is running and the pending-close flag is
\* armed; the flag is cleared when the shutdown has completed; and after a
\* daytime iteration has shut the dome down, the next iteration, when it
\* is a daytime one again, does not shut it down a second time.
C26_OneDaytimeClose ==
    [][(IsTick /\ tick'.handler = "daytime") =>
        /\ CallsOf(tick'.calls, "shutdown") # {} =>
              /\ ~observer.is_observing
              /\ ~state'.calibrating
              /\ pending_close_dome \/ tick'.armed
        /\ ShutdownDone(tick'.calls) => ~pending_close_dome'
        /\ (tick.handler = "daytime" /\ ShutdownDone(tick.calls))
              => CallsOf(tick'.calls, "shutdown") = {}]_vars

\* The observation a disabled overwatcher has to end.
RunningNotCancelled == observer.is_observing /\ ~observer.is_cancelling

\* Exactly one stop is requested, and it is graceful.
GracefulStopOnly(calls) ==
    /\ Cardinality(CallsOf(calls, "stop_observing")) = 1
    /\ \A i \in CallsOf(calls, "stop_observing") : calls[i].arg = FALSE

\* C27 as stated: every iteration that finds the overwatcher disabled and
\* an observation running and not being cancelled requests one graceful
\* stop and no immediate one; the disabled handler calls nothing otherwise.
C27_DisabledStopsGracefully_Original ==
    [][IsTick =>
        /\ (~state'.enabled /\ RunningNotCancelled)
              => GracefulStopOnly(tick'.calls)
        /\ (tick'.handler = "disabled" /\ ~RunningNotCancelled)
              => tick'.calls = <<>>]_vars

\* C27: an iteration that is safe and at night and finds the overwatcher
\* disabled and an observation running and not being cancelled requests
\* one graceful stop and no immediate one, as its first call; the disabled
\* handler calls nothing otherwise.  A disabled overwatcher at daytime
\* calls nothing at all, and an unsafe iteration requests no graceful stop.
C27_DisabledStopsGracefully ==
    [][IsTick =>
        /\ (tick'.handler = "disabled" /\ RunningNotCancelled)
              => /\ GracefulStopOnly(tick'.calls)
                 /\ tick'.calls[1].op = "stop_observing"
        /\ (tick'.handler = "disabled" /\ ~RunningNotCancelled)
              => tick'.calls = <<>>
        /\ (tick'.handler = "daytime" /\ ~state'.enabled)
              => tick'.calls = <<>>
        /\ tick'.handler = "unsafe"
              => \A i \in CallsOf(tick'.calls, "stop_observing") :
                    tick'.calls[i].arg = TRUE]_vars

\* A safe night iteration with the overwatcher disabled has requested the
\* graceful stop of the observation, which is now being cancelled.
C27_Witness ==
    /\ tick.handler = "disabled"
    /\ state.safe /\ state.night /\ ~state.enabled
    /\ GracefulStopOnly(tick.calls)
    /\ tick.calls[1].ok
    /\ observer.is_observing /\ observer.is_cancelling

\* C28: when the handler of an iteration raises, the error notification is
\* emitted, the next iteration starts after the 30 s back-off, and the
\* loop goes on.
C28_ErrorBackoff ==
    tick.caught =>
        /\ \E i \in CallsOf(tick.calls, "notify") :
              /\ tick.calls[i].arg = "error_main_task"
              /\ tick.calls[i].ok
        /\ tick.delay >= ErrorDelay
        /\ ~tick.escaped
        /\ task_running

(***************************************************************************)
(* DomeHelper: open / close / stop called by concurrent tasks              *)
(***************************************************************************)

\* Number of concurrent callers of the DomeHelper.
NTasks == 2

Tasks == 1 .. NTasks

DomeOps == {"open", "close", "stop"}

\* A caller: the operation it runs, where it is (pc), in which frame stop()
\* was called, the enclosure commands it has sent, the status read on entry
\* (current), what is_local() returned in _move (local), the error caught
\* by the except clause of _move (orig), the status read there (hstatus),
\* and how the call ended.
IdleTask ==
    [op |-> "idle", pc |-> "idle", frame |-> "", cmds |-> <<>>,
     current |-> {}, local |-> FALSE, orig |-> "", hstatus |-> {},
     result |-> "", err |-> ""]

\* The record of a call that has ended: its locals are gone.
Ended(r, res, err) ==
    [IdleTask EXCEPT !.op = r.op, !.pc = "done", !.orig = r.orig,
                     !.result = res, !.err = err]

\* What the main-task variables are while only the DomeHelper is exercised.
owRest == <<previous_state, pending_close_dome, observer, task_running, tick,
           notVars, obsVars, libVars>>

\* Mutant of MoveLockFree: the lock is not honoured.
MoveLockFree_Mut(lock) == TRUE

\* async with self._move_lock: the lock can be taken when nobody holds it.
MoveLockFree(lock) == lock = 0

\* Mutant of AlreadyThere: open() and close() never return early.
AlreadyThere_Mut(op, cur) == FALSE

\* The early returns of open() and close(): the status is compared for
\* equality with a single member of the DomeStatus flag.
AlreadyThere(op, cur) ==
    \/ op = "open" /\ (cur = {"OPEN"} \/ cur = {"OPENING"})
    \/ op = "close" /\ (cur = {"CLOSED"} \/ cur = {"CLOSING"})

\* Mutant of MoveReraises: the error is re-raised whatever the status is.
MoveReraises_Mut(op, st) == TRUE

\* The last test of the except clause of _move.
MoveReraises(op, st) ==
    \/ op = "open" /\ ~("OPEN" \in st)
    \/ op = "close" /\ ~("CLOSED" \in st)

\* Labels after the enclosure accepted a stop command: a moving dome goes
\* on moving, or stops at an end of its travel or in between.
AfterStop(labels) ==
    IF "MOVING" \in labels
    THEN {labels, {}} \cup ({labels \ {"MOVING"}} \cap DomeLabelSets)
    ELSE {labels}

\* Labels while the enclosure executes an open / close command.
WhileMoving(op) ==
    IF op = "open" THEN {"MOTOR_OPENING", "MOVING"}
    ELSE {"MOTOR_CLOSING", "MOVING"}

\* Labels after an open / close command completed.
AfterMove(op) == IF op = "open" THEN {"OPEN"} ELSE {"CLOSED"}

\* Labels after an open / close command failed.
AfterFailure(op) == {WhileMoving(op), {}, AfterMove(op)}

\* The call of task t ends, releasing the move lock if t holds it.
Finish(d, t, res, err) ==
    /\ dtask' = [d EXCEPT ![t] = Ended(d[t], res, err)]
    /\ move_lock' = IF move_lock = t THEN 0 ELSE move_lock

\* An exception raised inside stop() or _move(), by the frame it is raised in.
Throw(d, t, err) ==
    IF d[t].frame = "try"
    THEN /\ dtask' = [d EXCEPT ![t].pc = "m_except", ![t].orig = err]
         /\ UNCHANGED move_lock
    ELSE Finish(d, t, "raised", err)

\* A task calls open(), close() or stop().
Begin(t) ==
    /\ dtask[t].pc = "idle"
    /\ \A u \in Tasks : u < t => dtask[u].pc # "idle"
    /\ \E o \in DomeOps :
         dtask' = [dtask EXCEPT ![t].op = o,
                     ![t].pc = IF o = "stop" THEN "s_cmd" ELSE "acquire",
                     ![t].frame = IF o = "stop" THEN "direct" ELSE ""]
    /\ UNCHANGED <<move_lock, n_open, dome_labels, state>>
    /\ UNCHANGED owRest

\* open() / close(): async with self._move_lock
Acquire(t) ==
    /\ dtask[t].pc = "acquire"
    /\ MoveLockFree(move_lock)
    /\ move_lock' = t
    /\ dtask' = [dtask EXCEPT ![t].pc = "status"]
    /\ UNCHANGED <<n_open, dome_labels, state>>
    /\ UNCHANGED owRest

\* open() / close(): current = await self.status() and the tests on it.
EntryStatus(t) ==
    /\ dtask[t].pc = "status"
    /\ \E ok \in BOOLEAN :
         IF ~ok THEN Finish(dtask, t, "raised", "status")
         ELSE LET cur == status(dome_labels)
              IN  IF AlreadyThere(dtask[t].op, cur)
                  THEN Finish(dtask, t, "ok", "")
                  ELSE /\ dtask' = [dtask EXCEPT ![t].pc = "s_cmd",
                                      ![t].current = cur,
                                      ![t].frame = IF cur = {"UNKNOWN"}
                                                   THEN "unknown" ELSE "try"]
                       /\ UNCHANGED move_lock
    /\ UNCHANGED <<n_open, dome_labels, state>>
    /\ UNCHANGED owRest

\* stop(): await self.gort.enclosure.stop()
StopCmd(t) ==
    /\ dtask[t].pc = "s_cmd"
    /\ LET d == [dtask EXCEPT ![t].cmds = Append(@, "stop")]
       IN  \E ok \in BOOLEAN :
             IF ok
             THEN /\ \E l \in AfterStop(dome_labels) : dome_labels' = l
                  /\ dtask' = [d EXCEPT ![t].pc = "s_status"]
                  /\ UNCHANGED move_lock
             ELSE /\ UNCHANGED dome_labels
                  /\ Throw(d, t, "stop")
    /\ UNCHANGED <<n_open, state>>
    /\ UNCHANGED owRest

\* stop(): after asyncio.sleep(1), the status is read and tested for MOVING;
\* then control returns to the caller of stop().
StopStatus(t) ==
    /\ dtask[t].pc = "s_status"
    /\ \E ok \in BOOLEAN :
         IF ~ok THEN Throw(dtask, t, "status")
         ELSE IF "MOVING" \in status(dome_labels)
              THEN Throw(dtask, t, "still_moving")
         ELSE IF dtask[t].frame = "direct" THEN Finish(dtask, t, "ok", "")
         ELSE IF dtask[t].frame = "unknown"
              THEN /\ dtask' = [dtask EXCEPT ![t].pc = "s_cmd",
                                             ![t].frame = "try"]
                   /\ UNCHANGED move_lock
         ELSE IF dtask[t].frame = "try"
              THEN /\ dtask' = [dtask EXCEPT ![t].pc = "m_local"]
                   /\ UNCHANGED move_lock
         ELSE IF MoveReraises(dtask[t].op, dtask[t].hstatus)
              THEN Finish(dtask, t, "raised", dtask[t].orig)
              ELSE Finish(dtask, t, "ok", "")
    /\ UNCHANGED <<n_open, dome_labels, state>>
    /\ UNCHANGED owRest

\* Mutant of MoveRefusal: the test on state.safe is dropped.
MoveRefusal_Mut(op, is_local, safe) ==
    IF is_local THEN "local_mode" ELSE ""

\* _move(): the GortError raised instead of sending the command, if any.
MoveRefusal(op, is_local, safe) ==
    IF is_local THEN "local_mode"
    ELSE IF op = "open" /\ ~safe THEN "unsafe"
    ELSE ""

\* _move(): is_local(), the test on state.safe and the sending of the
\* enclosure open / close command.
MoveCommand(t) ==
    /\ dtask[t].pc = "m_local"
    /\ \E ok, is_local \in BOOLEAN :
       \E d \in {[dtask EXCEPT ![t].local = ok /\ is_local]} :
         IF ~ok
         THEN Throw(d, t, "is_local") /\ UNCHANGED <<dome_labels, n_open>>
         ELSE IF MoveRefusal(dtask[t].op, is_local, state.safe) # ""
         THEN Throw(d, t, MoveRefusal(dtask[t].op, is_local, state.safe))
              /\ UNCHANGED <<dome_labels, n_open>>
         ELSE /\ dtask' = [d EXCEPT ![t].pc = "m_wait",
                                    ![t].cmds = Append(@, dtask[t].op)]
              /\ dome_labels' = WhileMoving(dtask[t].op)
              /\ n_open' = IF dtask[t].op = "open" THEN n_open + 1 ELSE n_open
              /\ UNCHANGED move_lock
    /\ UNCHANGED state
    /\ UNCHANGED owRest

\* _move(): the enclosure open / close command returns or raises.
MoveWait(t) ==
    /\ dtask[t].pc = "m_wait"
    /\ \/ /\ dome_labels' = AfterMove(dtask[t].op)
          /\ Finish(dtask, t, "ok", "")
       \/ /\ \E l \in AfterFailure(dtask[t].op) : dome_labels' = l
          /\ dtask' = [dtask EXCEPT ![t].pc = "m_except", ![t].orig = "cmd"]
          /\ UNCHANGED move_lock
    /\ UNCHANGED <<n_open, state>>
    /\ UNCHANGED owRest

\* _move(): the except clause: sleep 3 s, read the status, stop if moving,
\* re-raise unless the status shows the intended final state.
MoveExcept(t) ==
    /\ dtask[t].pc = "m_except"
    /\ \E ok \in BOOLEAN :
         IF ~ok THEN Finish(dtask, t, "raised", "status")
         ELSE LET st == status(dome_labels)
              IN  IF "MOVING" \in st
                  THEN /\ dtask' = [dtask EXCEPT ![t].pc = "s_cmd",
                                      ![t].frame = "except",
                                      ![t].hstatus = st]
                       /\ UNCHANGED move_lock
                  ELSE IF MoveReraises(dtask[t].op, st)
                  THEN Finish(dtask, t, "raised", dtask[t].orig)
                  ELSE Finish(dtask, t, "ok", "")
    /\ UNCHANGED <<n_open, dome_labels, state>>
    /\ UNCHANGED owRest

InitDome ==
    /\ state \in {[OverwatcherState0 EXCEPT !.safe = b] : b \in BOOLEAN}
    /\ previous_state = Copy(OverwatcherState0)
    /\ pending_close_dome = FALSE
    /\ observer = [is_observing |-> FALSE, is_cancelling |-> FALSE,
                   next_exposure_completes |-> 0]
    /\ task_running = FALSE
    /\ tick = NoTick
    /\ dome_labels \in DomeLabelSets
    /\ move_lock = 0
    /\ n_open = 0
    /\ dtask = [t \in Tasks |-> IdleTask]
    /\ NotifierIdle
    /\ ObserverIdle

NextDome ==
    \E t \in Tasks :
        \/ Begin(t)
        \/ Acquire(t)
        \/ EntryStatus(t)
        \/ StopCmd(t)
        \/ StopStatus(t)
        \/ MoveCommand(t)
        \/ MoveWait(t)
        \/ MoveExcept(t)

SpecDome == InitDome /\ [][NextDome]_vars

\* The same callers, on a dome that is closed when they start.
InitDomeClosed == InitDome /\ dome_labels = {"CLOSED"}

SpecDomeClosed == InitDomeClosed /\ [][NextDome]_vars

(***************************************************************************)
(* Properties of the DomeHelper                                            *)
(***************************************************************************)

\* Task t is inside the body of open() or close(), under the move lock.
InMove(t) ==
    /\ dtask[t].op \in {"open", "close"}
    /\ dtask[t].pc \in {"status", "s_cmd", "s_status", "m_local", "m_wait",
                        "m_except"}

\* Task t called stop() directly, has sent the enclosure stop and is still
\* inside stop().
InDirectStop(t) == dtask[t].op = "stop" /\ dtask[t].pc = "s_status"

\* C2: when all the concurrent callers call open() on a closed dome and no
\* enclosure open command fails, at most one enclosure open command is ever
\* sent, and exactly one has been sent once all calls have ended and one of
\* them returned normally.
C2_OneOpenCommand ==
    (/\ \A t \in Tasks : dtask[t].op \in {"idle", "open"}
     /\ \A t \in Tasks : dtask[t].orig # "cmd")
    => /\ n_open <= 1
       /\ (/\ \A t \in Tasks : dtask[t].pc = "done"
           /\ \E t \in Tasks : dtask[t].result = "ok") => n_open = 1

\* C2 witness: two calls of open() have both returned normally and one open
\* command was sent.
C2_Witness ==
    /\ \A t \in Tasks : dtask[t].op = "open" /\ dtask[t].result = "ok"
    /\ n_open = 1

\* C3 (as stated): no two of open(), close() and a directly called stop()
\* are inside their bodies at the same time.
C3_AllThreeExclusive_Original ==
    \A t, u \in Tasks :
        t # u => ~((InMove(t) \/ InDirectStop(t))
                   /\ (InMove(u) \/ InDirectStop(u)))

\* C3 (amended): open() and close() exclude each other under the move
\* lock; stop() takes no lock.
C3_OpenCloseExclusive ==
    \A t, u \in Tasks : t # u => ~(InMove(t) /\ InMove(u))

\* C3 witness: one task is inside open() waiting for the enclosure while
\* another has called close() and waits for the lock.
C3_Witness ==
    \E t, u \in Tasks :
        /\ dtask[t].op = "open" /\ dtask[t].pc = "m_wait"
        /\ dtask[u].op = "close" /\ dtask[u].pc = "acquire"

\* C4: open() sends no enclosure command when the status read on entry is
\* open or opening, close() none when it is closed or closing, and when it
\* is UNKNOWN the first command sent is a stop.
C4_NoCommandAtTarget ==
    \A t \in Tasks :
        LET r == dtask[t]
        IN  /\ (r.op = "open" /\ r.current \cap {"OPEN", "OPENING"} # {})
                => r.cmds = <<>>
            /\ (r.op = "close" /\ r.current \cap {"CLOSED", "CLOSING"} # {})
                => r.cmds = <<>>
            /\ (r.op \in {"open", "close"} /\ r.current = {"UNKNOWN"}
                /\ r.cmds # <<>>) => r.cmds[1] = "stop"

\* The step ends a call of open() / close() whose enclosure command failed.
CmdFailedEnds(t) ==
    /\ dtask[t].orig = "cmd"
    /\ \/ dtask[t].pc = "m_except"
       \/ dtask[t].pc \in {"s_cmd", "s_status"} /\ dtask[t].frame = "except"
    /\ dtask'[t].pc = "done"

\* The status read by the except clause of _move in the call of task t.
ReRead(t) ==
    IF dtask[t].pc = "m_except" THEN status(dome_labels) ELSE dtask[t].hstatus

FinalState(op) == IF op = "open" THEN "OPEN" ELSE "CLOSED"

\* The except clause calls stop() exactly when the status it read is MOVING.
StopIffMoving ==
    \A t \in Tasks :
        (dtask[t].pc = "m_except" /\ dtask[t].orig = "cmd"
         /\ dtask'[t].pc # "m_except")
        => \/ dtask'[t].pc = "done" /\ dtask'[t].err = "status"
           \/ (dtask'[t].pc = "s_cmd") <=> ("MOVING" \in status(dome_labels))

\* C5 (as stated): after a failed enclosure command the status is re-read,
\* a stop is issued iff the dome is still moving, and the call re-raises
\* the original error iff the status does not show the intended final
\* state, returning normally otherwise.
C5_ReraiseIffNotFinal_Original ==
    [][/\ StopIffMoving
       /\ \A t \in Tasks :
            CmdFailedEnds(t)
            => /\ (dtask'[t].result = "raised" /\ dtask'[t].err = "cmd")
                   <=> ~(FinalState(dtask[t].op) \in ReRead(t))
               /\ (dtask'[t].result = "ok")
                   <=> (FinalState(dtask[t].op) \in ReRead(t))]_vars

\* C5 (amended): as stated, except that the error leaving the call is the
\* original one only if the status re-read and the stop issued by the
\* except clause did not themselves raise; if one of them raises, that
\* error leaves the call instead.
C5_ReraiseIffNotFinal ==
    [][/\ StopIffMoving
       /\ \A t \in Tasks :
            CmdFailedEnds(t)
            => LET r == dtask'[t]
                   inStop == dtask[t].pc # "m_except"
               IN  IF ~inStop /\ r.err = "status"
                   THEN r.result = "raised"
                   ELSE /\ (r.result = "ok")
                            <=> (FinalState(dtask[t].op) \in ReRead(t))
                        /\ r.result = "raised"
                            => \/ r.err = "cmd"
                               \/ /\ inStop
                                  /\ r.err \in {"stop", "status",
                                                "still_moving"}]_vars

\* C5 witness: the enclosure command of a call failed, the except clause
\* found the dome in the intended final state and the call returned normally.
C5_Witness ==
    \E t \in Tasks :
        /\ dtask[t].op \in {"open", "close"}
        /\ dtask[t].pc = "done"
        /\ dtask[t].orig = "cmd"
        /\ dtask[t].result = "ok"

\* The step sends an enclosure open command.
OpenSent == n_open' > n_open

\* The step ends a call of open() that _move refused to carry out.
RefusedOpenEnds(t) ==
    /\ dtask[t].op = "open"
    /\ dtask[t].orig \in {"unsafe", "local_mode"}
    /\ dtask[t].pc # "done"
    /\ dtask'[t].pc = "done"

\* An enclosure open command is sent only by a call of open() that found
\* state.safe true and is_local() false.
OpenOnlySafeAndRemote ==
    OpenSent => /\ state.safe
                /\ \E t \in Tasks : /\ dtask[t].op = "open"
                                     /\ dtask[t].pc = "m_local"
                                     /\ dtask'[t].pc = "m_wait"
                                     /\ ~dtask'[t].local

MaxCalls == 2

\* The clock stops here.
MaxClock == 60

\* Time that passes between two events.
TimeSteps == {30}

\* Default of min_time_between_repeat_notifications.
MinTimeBetweenRepeats == 60

\* overwatcher.slack.notifications_channel
DefaultChannel == "lvm-overwatcher"

\* Arguments of the calls: message, error ("" is None), slack_channel
\* ("" is None, "False" is False), allow_repeat_notifications.  level is
\* left to its default, payload is empty, log and database are True.
NotifyArgs ==
    {[message |-> c[1], error |-> c[2], slack_channel |-> c[3],
      allow_repeat |-> b] :
        c \in {<<"m", "", "">>, <<"", "e", "">>, <<"m", "", "False">>},
        b \in BOOLEAN}

\* level = "error" if error is not None else "info"
Level(a) == IF a.error # "" THEN "error" ELSE "info"

\* message = message or ""; a message made of the error if it is empty.
Message(a) ==
    IF a.error # "" /\ a.message = "" THEN " " \o a.error ELSE a.message

\* slack_channel after None / True were replaced by the configured channel.
Channel(a) == IF a.slack_channel = "" THEN DefaultChannel ELSE a.slack_channel

\* NotifierMixIn.create_notification_hash: the digest of the concatenated
\* elements (the digest itself is taken to be injective).
create_notification_hash(message, level, error, slack_channel, payload) ==
    message \o level \o error
            \o (IF slack_channel = "False" THEN "" ELSE slack_channel)
            \o payload

\* notification_history.get(hash); 0 stands for None.
HistoryGet(history, h) == IF h \in DOMAIN history THEN history[h] ELSE 0

\* Mutant of Suppress: the comparison with the current time is reversed.
Suppress_Mut(allow_repeat, next_notification_time, now) ==
    ~allow_repeat /\ next_notification_time # 0 /\ next_notification_time < now

\* The test that turns the Slack channel off for a repeated notification.
Suppress(allow_repeat, next_notification_time, now) ==
    ~allow_repeat /\ next_notification_time # 0 /\ next_notification_time > now

\* The calls of notify() that are waiting for the answer of the API.
InFlight == {i \in DOMAIN ncalls : ncalls[i].response = ""}

notRest == <<state, previous_state, pending_close_dome, observer, dome_labels,
             task_running, tick, domeVars, obsVars, libVars>>

\* notify() up to the POST: the message is logged, the hash computed, the
\* history consulted and the request sent.  Other tasks may be inside
\* notify() at the same time, waiting at their own POST.
NotifyCall ==
    /\ Len(ncalls) < MaxCalls
    /\ \E a \in NotifyArgs :
        LET h == create_notification_hash(Message(a), Level(a), a.error,
                                          Channel(a), "")
            suppressed == Suppress(a.allow_repeat,
                                   HistoryGet(notification_history, h), clock)
        IN  ncalls' = Append(ncalls,
                [args |-> a, hash |-> h, t0 |-> clock, logged |-> TRUE,
                 after |-> DOMAIN ncalls \ InFlight,
                 posted_channel |-> IF suppressed THEN "False" ELSE Channel(a),
                 write_to_database |-> TRUE,
                 response |-> "", t1 |-> 0])
    /\ UNCHANGED <<clock, notification_history>>
    /\ UNCHANGED notRest

\* notify() from the answer of the API on: a request that raised leaves
\* notify() at once; otherwise the next time for this hash is recorded.
NotifyReturn ==
    /\ \E n \in InFlight, r \in ApiResponses :
            /\ ncalls' = [ncalls EXCEPT ![n].response = r, ![n].t1 = clock]
            /\ notification_history' =
                 IF NotifyRaises(r) THEN notification_history
                 ELSE [h \in DOMAIN notification_history \cup {ncalls[n].hash}
                         |-> IF h = ncalls[n].hash
                             THEN clock + MinTimeBetweenRepeats
                             ELSE notification_history[h]]
    /\ UNCHANGED clock
    /\ UNCHANGED notRest

\* Time passes.
Advance ==
    /\ \E d \in TimeSteps : clock + d <= MaxClock /\ clock' = clock + d
    /\ UNCHANGED <<notification_history, ncalls>>
    /\ UNCHANGED notRest

InitNotifier ==
    /\ InitOW
    /\ dome_labels = {"CLOSED"}
    /\ DomeIdle
    /\ NotifierIdle
    /\ ObserverIdle

NextNotifier == NotifyCall \/ NotifyReturn \/ Advance

SpecNotifier == InitNotifier /\ [][NextNotifier]_vars

\* Call i returned normally: the API answered its request.
Returned(i) == ncalls[i].response \in {"200", "500"}

\* The request of call i carried a Slack channel.
Outward(i) == ncalls[i].posted_channel # "False"

\* Calls i and j have the same message, level, error, channel and payload,
\* and ask for an outward channel.
SameNotification(i, j) ==
    /\ ncalls[i].args.message = ncalls[j].args.message
    /\ ncalls[i].args.error = ncalls[j].args.error
    /\ ncalls[i].args.slack_channel = ncalls[j].args.slack_channel
    /\ ncalls[i].args.slack_channel # "False"

SuppressedReturns(n) ==
    /\ n \in InFlight
    /\ ncalls'[n].response \in {"200", "500"}
    /\ ncalls[n].args.slack_channel # "False"
    /\ ~Outward(n)

\* C38: the return of a suppressed repeat leaves the next time recorded
\* for its notification as it was: only a notification that went out
\* moves it.
C38_SuppressedKeepsWindow ==
    [][\A n \in DOMAIN ncalls :
         SuppressedReturns(n)
         => HistoryGet(notification_history', ncalls[n].hash)
              = HistoryGet(notification_history, ncalls[n].hash)]_vars

(***************************************************************************)
(* Gort.observe_tile and GortObserver                                      *)
(*                                                                         *)
(* One call of observe_tile() is followed through its awaits.  otile.ran   *)
(* lists the GortObserver methods whose body has run, in order.  The       *)
(* outcome of each device operation is an input of the call, kept in       *)
(* otile.env.                                                              *)
(***************************************************************************)

\* The ways the tile argument of observe_tile() can be given.
TileArgs == {"Tile", "tile_id", "None"}

\* The telescopes acquire() loops over; sci always has coordinates.
Telescopes == {"sci", "skye", "skyw", "spec"}

\* What the tile and the devices do during the call: whether
\* telescopes.goto/fibsel succeed, which telescopes have coordinates and are
\* guided, which of them wait_until_guiding reports as guiding, whether the
\* exposure succeeds, whether guiders.stop() succeeds.
ObserveEnvs ==
    {e \in [slew : BOOLEAN, guided : SUBSET Telescopes,
            guiding : SUBSET Telescopes, expose : BOOLEAN, stop : BOOLEAN] :
        "sci" \in e.guided /\ e.guiding \subseteq e.guided}

\* Mutant of NotGuiding: a sky telescope that is not guiding is fatal too.
NotGuiding_Mut(guided, guiding) == guided \ guiding # {}

\* acquire(): the test on guide_status that raises GortObserverError: sci
\* or spec is guided and is not guiding.
NotGuiding(guided, guiding) ==
    \E tel \in {"sci", "spec"} : tel \in guided /\ tel \notin guiding

\* The keyword arguments observe_tile() passes to GortObserver.acquire().
AcquireKwargs == {"min_skies", "require_spec", "guide_tolerance", "timeout"}

\* The parameters GortObserver.acquire() declares.
AcquireParams == {"guide_tolerance", "timeout"}

\* Python binds a call's keyword arguments to the declared parameters and
\* raises TypeError for a keyword that is not declared.
Binds(kwargs, params) == kwargs \subseteq params

\* Tile creation at the top of observe_tile(): "tile" when a tile results,
\* "GortError" when the arguments do not determine one.
CreateTile(tile, ra, dec, use_scheduler) ==
    IF tile = "Tile" THEN "tile"
    ELSE IF tile # "None" \/ (tile = "None" /\ ~ra /\ ~dec)
         THEN IF use_scheduler THEN "tile" ELSE "GortError"
    ELSE IF ra /\ dec THEN "tile"
    ELSE "GortError"

obsRest == <<owVars, domeVars, notVars, libVars>>

\* observe_tile() is called.
ObserveTile ==
    /\ otile.pc = "none"
    /\ \E tile \in TileArgs, ra, dec, use_scheduler \in BOOLEAN,
          env \in ObserveEnvs :
          otile' = [pc |-> "tile", caller |-> "observe_tile",
                    kwargs |-> AcquireKwargs,
                    args |-> [tile |-> tile, ra |-> ra, dec |-> dec,
                              use_scheduler |-> use_scheduler],
                    env |-> env, ran |-> <<>>, finished |-> 0,
                    acq_error |-> FALSE, acq_stops |-> 0,
                    guide_task |-> "none", exposure |-> "None",
                    result |-> "None", err |-> ""]
    /\ UNCHANGED obsRest

\* A client holding a Tile drives a GortObserver itself, through the same
\* sequence, passing acquire() keywords that acquire() declares.
ObserverClient ==
    /\ otile.pc = "none"
    /\ \E kwargs \in SUBSET AcquireParams, env \in ObserveEnvs :
          otile' = [pc |-> "slew", caller |-> "client", kwargs |-> kwargs,
                    args |-> [tile |-> "Tile", ra |-> FALSE, dec |-> FALSE,
                              use_scheduler |-> FALSE],
                    env |-> env, ran |-> <<>>, finished |-> 0,
                    acq_error |-> FALSE, acq_stops |-> 0,
                    guide_task |-> "none", exposure |-> "None",
                    result |-> "None", err |-> ""]
    /\ UNCHANGED obsRest

\* The tile is created, or GortError leaves observe_tile() before the
\* observer exists.
ObserveTileCreate ==
    /\ otile.pc = "tile"
    /\ LET made == CreateTile(otile.args.tile, otile.args.ra, otile.args.dec,
                              otile.args.use_scheduler)
       IN  otile' = IF made = "tile"
                    THEN [otile EXCEPT !.pc = "slew"]
                    ELSE [otile EXCEPT !.pc = "done", !.err = made]
    /\ UNCHANGED obsRest

\* GortObserver.slew().
slew ==
    /\ otile.pc = "slew"
    /\ otile' = [otile EXCEPT
                   !.ran = Append(@, "slew"),
                   !.pc = IF otile.env.slew THEN "acquire" ELSE "finish",
                   !.err = IF otile.env.slew THEN "" ELSE "slew"]
    /\ UNCHANGED obsRest

\* The call of GortObserver.acquire() with the caller's keywords, and the
\* body of acquire() when the call binds.
acquire ==
    /\ otile.pc = "acquire"
    /\ IF ~Binds(otile.kwargs, AcquireParams)
       THEN otile' = [otile EXCEPT !.pc = "finish", !.err = "TypeError"]
       ELSE IF ~NotGuiding(otile.env.guided, otile.env.guiding)
            THEN otile' = [otile EXCEPT !.ran = Append(@, "acquire"),
                                        !.guide_task = "running",
                                        !.pc = "expose"]
            ELSE \E gt \in {"running", "done"} :
                   otile' = [otile EXCEPT
                               !.ran = Append(@, "acquire"),
                               !.guide_task = gt,
                               !.acq_error = TRUE,
                               !.acq_stops = @ + 1,
                               !.pc = "finish",
                               !.err = IF otile.env.stop
                                       THEN "acquire" ELSE "stop"]
    /\ UNCHANGED obsRest

\* GortObserver.expose().
expose ==
    /\ otile.pc = "expose"
    /\ otile' = [otile EXCEPT
                   !.ran = Append(@, "expose"),
                   !.exposure = IF otile.env.expose THEN "Exposure" ELSE "None",
                   !.err = IF otile.env.expose THEN "" ELSE "expose",
                   !.pc = "finish"]
    /\ UNCHANGED obsRest

\* The finally clause: GortObserver.finish_observation(), then the return
\* of the exposure or the propagation of the pending exception.
finish_observation ==
    /\ otile.pc = "finish"
    /\ LET stops == otile.guide_task = "running"
           err == IF stops /\ ~otile.env.stop THEN "stop" ELSE otile.err
       IN  otile' = [otile EXCEPT
                       !.finished = @ + 1,
                       !.guide_task = IF stops /\ otile.env.stop
                                      THEN "done" ELSE @,
                       !.err = err,
                       !.result = IF err = "" THEN otile.exposure ELSE "None",
                       !.pc = "done"]
    /\ UNCHANGED obsRest

InitObserver ==
    /\ InitOW
    /\ dome_labels = {"CLOSED"}
    /\ DomeIdle
    /\ NotifierIdle
    /\ ObserverIdle

NextObserver ==
    \/ ObserveTile
    \/ ObserverClient
    \/ ObserveTileCreate
    \/ slew
    \/ acquire
    \/ expose
    \/ finish_observation

SpecObserver == InitObserver /\ [][NextObserver]_vars

\* The observer was created and observe_tile() has returned or raised.
ObserveTileEnded ==
    /\ otile.pc = "done"
    /\ otile.caller = "observe_tile"
    /\ otile.err # "GortError"

\* The phases that ran are a prefix of slew, acquire, expose.
PhasesInOrder ==
    (otile.pc # "none" /\ otile.caller = "observe_tile") =>
        \E n \in 0..3 : otile.ran = SubSeq(<<"slew", "acquire", "expose">>, 1, n)

\* C10: in observe_tile, slew, acquire and expose run in that order, each
\* only after the previous one completed without error; finish_observation
\* runs exactly once on every path before the call ends; and when the
\* telescopes slew, the guiders acquire and the spectrographs expose
\* without error, the exposure produced by expose is returned.
C10_ObserveTilePhases ==
    /\ PhasesInOrder
    /\ ObserveTileEnded => otile.finished = 1
    /\ (/\ ObserveTileEnded
        /\ otile.env.slew
        /\ ~NotGuiding(otile.env.guided, otile.env.guiding)
        /\ otile.env.expose
        /\ otile.env.stop)
       => /\ otile.ran = <<"slew", "acquire", "expose">>
          /\ otile.result = "Exposure"
          /\ otile.err = ""

\* The body of acquire() has run and the call has ended.
AcquireEnded == otile.pc \in {"expose", "finish", "done"} /\ "acquire" \in
                    {otile.ran[i] : i \in DOMAIN otile.ran}

StandardCounts == {0, 1, 2, 4}
ExposureTimes == {60, 320, 600}

\* time() when the exposure starts, and how long one pass of the loop of
\* _iterate can take.
StdClock0 == {1000}
StdTimeSteps == {65, 130}

\* ACQ_PER_STD: time to acquire a standard.
ACQ_PER_STD == 30

\* The count argument of expose(): the exposures taken on the tile.
ExposureCounts == {1, 2}

\* Number of finish_observation() calls followed.
MaxFinish == 2

\* Standards._get_frame: one row per standard, all columns at their default.
get_frame(n) == [i \in 1 .. n |-> [acquired |-> 0, observed |-> 0, t1 |-> 0]]

\* Mutant of time_per_position: no fallback when the value is negative.
time_per_position_Mut(exposure_time, n_stds) ==
    (exposure_time \div n_stds) - ACQ_PER_STD

\* _iterate: the time to stay on each mask position (the exposure times
\* tried are multiples of the numbers of standards tried).
time_per_position(exposure_time, n_stds) ==
    IF (exposure_time \div n_stds) - ACQ_PER_STD < 0
    THEN exposure_time \div n_stds
    ELSE (exposure_time \div n_stds) - ACQ_PER_STD

\* _iterate: the warning logged when the exposure is too short.
TooShort(exposure_time, n_stds) ==
    (exposure_time \div n_stds) - ACQ_PER_STD < 0

\* Mutant of CancelMarks: cancel() never closes the current row.
CancelMarks_Mut(row) == FALSE

\* Standards.cancel: the test under which the current row is closed.
CancelMarks(row) == row.acquired = 1 /\ row.observed # 1

\* Standards.cancel: cancel_task(iterate_task) ends a running task at the
\* await it is suspended at; then the current row is closed.
StandardsCancel(s) ==
    LET s1 == [s EXCEPT !.task = IF @ = "running" THEN "cancelled" ELSE @,
                        !.ncancel = 1 - @]
    IN  IF s.n = 0 THEN s1
        ELSE IF CancelMarks(s.rows[s.current_standard])
        THEN [s1 EXCEPT !.rows[s.current_standard].observed = 1,
                        !.rows[s.current_standard].t1 = s.now]
        ELSE s1

\* Mutant of GuideTaskActive: the done() test is dropped.
GuideTaskActive_Mut(guide_task) == guide_task # "none"

\* finish_observation: guide_task is not None and not guide_task.done()
GuideTaskActive(guide_task) == guide_task = "running"

\* The iterate task is suspended at the await named ipc.
AtAwait(ipc) == std.pc = "exposing" /\ std.task = "running" /\ std.ipc = ipc

stdRest == <<owVars, domeVars, notVars, obsVars, ptg, fan, ract,
            tilec, act, grp, gmon>>

\* A GortObserver exists for a tile with n standards, and slew() has
\* pointed the spec telescope at the first of them; the guide task was
\* never created, is running, or has finished.  expose() will take count
\* exposures; spec_target is the standard goto_coordinates was last
\* called for on the spec telescope.  acquire() restarts the guider
\* monitor right before it creates the guide task, so the task of the
\* monitor (monitor_task) runs exactly when a guide task was created.
ObserverCreated ==
    /\ std.pc = "none"
    /\ \E n \in StandardCounts, e \in ExposureTimes, t \in StdClock0,
          gt \in {"none", "running", "done"}, count \in ExposureCounts :
          std' = [pc |-> "ready", n |-> n, exposure_time |-> e,
                  count |-> count, nexp |-> 0,
                  monitor_task |-> IF gt = "none" THEN "none" ELSE "running",
                  spec_target |-> IF n > 0 THEN 1 ELSE 0,
                  rows |-> get_frame(n), current_standard |-> 1,
                  task |-> "none", ipc |-> "", idx |-> 0,
                  t0 |-> 0, t0_last_std |-> 0, tpp |-> 0, warned |-> FALSE,
                  now |-> t, guide_task |-> gt, ncancel |-> 0,
                  nfinish |-> 0, finish_ok |-> TRUE, stops |-> 0,
                  skipped |-> {}, mask_moves |-> {}]
    /\ UNCHANGED stdRest

\* expose(): Standards.start_iterating, and _iterate up to its first await.
start_iterating ==
    /\ std.pc = "ready"
    /\ IF std.n = 0
       THEN std' = [std EXCEPT !.pc = "exposing", !.nexp = @ + 1]
       ELSE LET s1 == StandardsCancel(std)
                s2 == [s1 EXCEPT !.nexp = @ + 1,
                                 !.rows = [get_frame(std.n) EXCEPT
                                              ![1].acquired = 1],
                                 !.current_standard = 1,
                                 !.skipped = {},
                                 !.mask_moves = {1},
                                 !.pc = "exposing"]
            IN  std' = IF std.n <= 1
                       THEN [s2 EXCEPT !.task = "done"]
                       ELSE [s2 EXCEPT
                               !.task = "running", !.ipc = "sleep",
                               !.idx = 0, !.t0 = std.now,
                               !.t0_last_std = std.now,
                               !.tpp = time_per_position(std.exposure_time,
                                                         std.n),
                               !.warned = TooShort(std.exposure_time, std.n)]
    /\ UNCHANGED stdRest

\* Mutant of LoopExits: the loop also exits when the elapsed time equals
\* the limit.
LoopExits_Mut(t_now, t0, exposure_time) ==
    t_now - t0 >= exposure_time - 2 * ACQ_PER_STD

\* _iterate: less than 2 * ACQ_PER_STD is left in the exposure.
LoopExits(t_now, t0, exposure_time) ==
    t_now - t0 > exposure_time - 2 * ACQ_PER_STD

\* _iterate: asyncio.sleep(1) returns after some time, and the loop runs to
\* its next await: it exits, goes round, or starts moving the mask.
IterateSleep ==
    /\ AtAwait("sleep")
    /\ \E d \in StdTimeSteps :
         LET t_now == std.now + d
         IN  std' =
               IF LoopExits(t_now, std.t0, std.exposure_time)
               THEN [std EXCEPT !.now = t_now, !.task = "done"]
               ELSE IF t_now - std.t0_last_std > std.tpp
                       /\ std.n # std.idx + 1
               THEN [std EXCEPT !.now = t_now, !.ipc = "mask"]
               ELSE [std EXCEPT !.now = t_now]
    /\ UNCHANGED stdRest

\* _iterate: fibsel.move_relative(500) returned: the previous standard is
\* registered, the next one selected, and the re-slew awaited.
IterateMask ==
    /\ AtAwait("mask")
    /\ \E ok \in BOOLEAN :
         std' = IF ~ok THEN [std EXCEPT !.task = "done"]
                ELSE [std EXCEPT
                        !.rows[std.current_standard].t1 = std.now,
                        !.rows[std.current_standard].observed = 1,
                        !.idx = @ + 1,
                        !.current_standard = @ + 1,
                        !.ipc = "reslew"]
    /\ UNCHANGED stdRest

\* _iterate: guiders["spec"].stop() and goto_coordinates returned; guiding
\* is started and wait_until_guiding awaited.  When one of them raised,
\* goto_coordinates had commanded the telescope or had not.
IterateReslew ==
    /\ AtAwait("reslew")
    /\ \E ok \in BOOLEAN,
          target \in {std.spec_target, std.current_standard} :
         std' = IF ~ok
                THEN [std EXCEPT !.spec_target = target, !.task = "done"]
                ELSE [std EXCEPT !.spec_target = std.current_standard,
                                 !.ipc = "wait"]
    /\ UNCHANGED stdRest

\* Mutant of StandardAcquired: the result of the wait is not looked at.
StandardAcquired_Mut(guiding) == TRUE

\* _iterate: the test of the result of wait_until_guiding(timeout=60).
StandardAcquired(guiding) == guiding

\* _iterate: wait_until_guiding returned: the standard is skipped, or
\* fibsel.move_to_position is called to uncover its fibre.  std.skipped
\* are the standards on which guiding did not converge, std.mask_moves
\* the standards move_to_position was called for.
IterateWait ==
    /\ AtAwait("wait")
    /\ \E guiding \in BOOLEAN :
         \E s \in {IF guiding THEN std
                   ELSE [std EXCEPT !.skipped = @ \cup {std.current_standard}]} :
         std' = IF ~StandardAcquired(guiding) THEN [s EXCEPT !.ipc = "sleep"]
                ELSE [s EXCEPT !.mask_moves = @ \cup {std.current_standard},
                               !.ipc = "uncover"]
    /\ UNCHANGED stdRest

\* _iterate: fibsel.move_to_position returned: the new standard is acquired.
IterateUncover ==
    /\ AtAwait("uncover")
    /\ \E ok \in BOOLEAN :
         std' = IF ~ok THEN [std EXCEPT !.task = "done"]
                ELSE [std EXCEPT
                        !.t0_last_std = std.now,
                        !.rows[std.current_standard].acquired = 1,
                        !.ipc = "sleep"]
    /\ UNCHANGED stdRest

\* The pre-readout hook of the exposure: _pre_readout cancels the standards.
pre_readout ==
    /\ std.pc = "exposing"
    /\ std' = [(IF std.n > 0 THEN StandardsCancel(std) ELSE std)
                 EXCEPT !.pc = "readout"]
    /\ UNCHANGED stdRest

\* expose(): the exposure was read out and registered, and the loop over
\* the exposures goes on to the next one.
NextExposure ==
    /\ std.pc = "readout"
    /\ std.nexp < std.count
    /\ std' = [std EXCEPT !.pc = "ready"]
    /\ UNCHANGED stdRest

\* GortObserver.finish_observation, called at any point after the observer
\* was created (after a failure of an earlier phase, during or after the
\* exposure, or once more).
FinishObservation ==
    /\ std.pc \in {"ready", "exposing", "readout", "finished"}
    /\ std.nfinish < MaxFinish
    /\ LET s1 == [StandardsCancel(std) EXCEPT !.pc = "finished",
                                              !.nfinish = @ + 1]
       IN  IF GuideTaskActive(std.guide_task)
           THEN \E ok \in BOOLEAN :
                  std' = [s1 EXCEPT !.stops = @ + 1,
                                    !.finish_ok = ok,
                                    !.guide_task = IF ok THEN "done" ELSE @]
           ELSE std' = [s1 EXCEPT !.finish_ok = TRUE]
    /\ UNCHANGED stdRest

InitStandards == InitObserver

NextStandards ==
    \/ ObserverCreated
    \/ start_iterating
    \/ IterateSleep
    \/ IterateMask
    \/ IterateReslew
    \/ IterateWait
    \/ IterateUncover
    \/ pre_readout
    \/ NextExposure
    \/ FinishObservation

SpecStandards == InitStandards /\ [][NextStandards]_vars

\* The step is a call of finish_observation().
IsFinish == std.pc # "none" /\ std'.nfinish = std.nfinish + 1

\* The step is a call of Standards.cancel() on a non-empty data frame, made
\* by the pre-readout hook or by finish_observation().
IsCancel ==
    /\ std.pc # "none" /\ std.n > 0
    /\ std'.ncancel # std.ncancel
    /\ std'.pc \in {"readout", "finished"}

\* C11: finish_observation() returns normally without a guider stop when
\* the guide task was never created or has finished, whether or not a
\* standards iteration is running; and a call that follows a call that
\* returned issues no guider stop and leaves the standards data frame and
\* the current standard unchanged.
C11_FinishIdempotent ==
    [][IsFinish =>
        /\ std.guide_task \in {"none", "done"}
             => std'.finish_ok /\ std'.stops = std.stops
        /\ (std.nfinish >= 1 /\ std.finish_ok)
             => /\ std'.finish_ok
                /\ std'.stops = std.stops
                /\ std'.rows = std.rows
                /\ std'.current_standard = std.current_standard]_vars

\* C11 witness: finish_observation() was called twice; the first call
\* stopped the guiders and closed the current standard, the second one
\* stopped nothing.
C11_Witness ==
    /\ std.pc = "finished"
    /\ std.nfinish = 2 /\ std.finish_ok
    /\ std.stops = 1 /\ std.guide_task = "done"
    /\ std.n > 0 /\ std.rows[std.current_standard].observed = 1

\* C14 (as stated): when cancel() arrives while the iterate task is
\* running, at whichever await, and the current row is not marked
\* observed, the row has observed = 1 and a t1 afterwards.
C14_CancelClosesActive_Original ==
    [][(IsCancel /\ std.task = "running"
        /\ std.rows[std.current_standard].observed # 1)
       => /\ std'.rows[std.current_standard].observed = 1
          /\ std'.rows[std.current_standard].t1 # 0]_vars

\* C14 (amended): cancel() closes the current row (observed = 1, t1 set)
\* when that row was acquired and not yet marked observed; otherwise, in
\* particular for a newly selected standard that is not yet acquired, it
\* leaves the data frame as it is.
C14_CancelClosesAcquired ==
    [][IsCancel =>
        /\ std'.current_standard = std.current_standard
        /\ IF /\ std.rows[std.current_standard].acquired = 1
              /\ std.rows[std.current_standard].observed # 1
           THEN /\ std'.rows[std.current_standard].observed = 1
                /\ std'.rows[std.current_standard].t1 = std.now
                /\ std.now # 0
                /\ \A i \in DOMAIN std.rows :
                     i # std.current_standard => std'.rows[i] = std.rows[i]
           ELSE std'.rows = std.rows]_vars

\* C14 witness: the iteration was cancelled while observing the second
\* standard, whose row was closed by the cancellation.
C14_Witness ==
    /\ std.pc # "none"
    /\ std.task = "cancelled"
    /\ std.current_standard = 2
    /\ std.rows[2].acquired = 1
    /\ std.rows[2].observed = 1
    /\ std.rows[2].t1 # 0

\* C15: once the iterate task has computed it, the time per position is
\* E/N - 30 when that is not negative and E/N, with a warning, when it is:
\* 120 for N = 4 and E = 600, 15 with a warning for N = 4 and E = 60.
C15_TimePerPosition ==
    (std.pc # "none" /\ std.task # "none" /\ std.n >= 2) =>
        LET e == std.exposure_time
            n == std.n
        IN  /\ (e \div n) - 30 >= 0
                 => std.tpp = (e \div n) - 30 /\ ~std.warned
            /\ (e \div n) - 30 < 0
                 => std.tpp = e \div n /\ std.warned
            /\ (n = 4 /\ e = 600) => std.tpp = 120 /\ ~std.warned
            /\ (n = 4 /\ e = 60) => std.tpp = 15 /\ std.warned

\* C15 witness: four standards in a 60 s exposure.
C15_Witness ==
    /\ std.pc # "none" /\ std.task # "none"
    /\ std.n = 4 /\ std.exposure_time = 60
    /\ std.tpp = 15 /\ std.warned

(***************************************************************************)
(* Telescope.goto_coordinates                                              *)
(*                                                                         *)
(* Positions are along one great circle, in hundredths of a degree.        *)
(* ptg.errs[k] is the distance between the position the PWI reports       *)
(* after the k-th goto command and the position that command asked for.    *)
(***************************************************************************)

\* 0.1 deg, the largest separation accepted, in hundredths of a degree.
PointingTolerance == 10

\* The seconds slept before the retry.
RetryDelay == 3

\* The position requested and the configured pointing offsets.
GotoTargets == {1000}
PointingOffsets == {0, 5}

\* The separations the PWI may report after a goto command.
PointingErrors == {0, 10, 11, 20}

gotoRest == <<owVars, domeVars, notVars, obsVars, std, fan, ract,
            tilec, act, grp, gmon>>

\* tools.angular_separation, along one great circle.
angular_separation(commanded, reported) ==
    IF commanded >= reported THEN commanded - reported
    ELSE reported - commanded

\* Mutant of TooFar: a separation of exactly 0.1 deg is rejected.
TooFar_Mut(commanded, reported) ==
    angular_separation(commanded, reported) >= PointingTolerance

\* The test "separation > 0.1".
TooFar(commanded, reported) ==
    angular_separation(commanded, reported) > PointingTolerance

\* A client calls goto_coordinates.
GotoRequest ==
    /\ ptg.pc = "none"
    /\ \E ra \in GotoTargets, mode \in {"radec", "altaz"},
          use_pointing_offsets, force, retry, is_local \in BOOLEAN,
          offset \in PointingOffsets,
          errs \in [1..2 -> PointingErrors] :
         ptg' = [pc |-> "enter", mode |-> mode, target |-> ra, ra |-> ra,
                 use_pointing_offsets |-> use_pointing_offsets,
                 force |-> force, request_retry |-> retry, retry |-> retry,
                 is_local |-> is_local, offset |-> offset, errs |-> errs,
                 commanded |-> <<>>, reported |-> <<>>, slept |-> 0,
                 enabled |-> TRUE, err |-> "", returned |-> FALSE]
    /\ UNCHANGED gotoRest

\* The local-mode test at the entry of the call, the first one or the
\* retry.
GotoEnter ==
    /\ ptg.pc = "enter"
    /\ IF ptg.is_local /\ ~ptg.force
       THEN ptg' = [ptg EXCEPT !.pc = "done", !.err = "101"]
       ELSE ptg' = [ptg EXCEPT !.pc = "goto"]
    /\ UNCHANGED gotoRest

\* The pointing offsets are added to the coordinates of this call, the goto
\* command is sent, and the status is read back.
GotoCommand ==
    /\ ptg.pc = "goto"
    /\ LET ra == IF ptg.mode = "radec" /\ ptg.use_pointing_offsets
                 THEN ptg.ra + ptg.offset ELSE ptg.ra
           k == Len(ptg.commanded) + 1
       IN  ptg' = [ptg EXCEPT !.ra = ra,
                              !.commanded = Append(@, ra),
                              !.reported = Append(@, ra + ptg.errs[k]),
                              !.pc = "verify"]
    /\ UNCHANGED gotoRest

\* The check of the position reached: success, the retry after the sleep,
\* or the axes disabled and error 102.
GotoVerify ==
    /\ ptg.pc = "verify"
    /\ LET k == Len(ptg.commanded)
       IN  IF TooFar(ptg.commanded[k], ptg.reported[k])
           THEN IF ptg.retry
                THEN ptg' = [ptg EXCEPT !.pc = "sleep"]
                ELSE ptg' = [ptg EXCEPT !.enabled = FALSE, !.err = "102",
                                        !.pc = "done"]
           ELSE ptg' = [ptg EXCEPT !.returned = TRUE, !.pc = "done"]
    /\ UNCHANGED gotoRest

\* asyncio.sleep(3) and the recursive call with retry=False.
GotoRetry ==
    /\ ptg.pc = "sleep"
    /\ ptg' = [ptg EXCEPT !.slept = @ + RetryDelay, !.retry = FALSE,
                          !.pc = "enter"]
    /\ UNCHANGED gotoRest

InitGoto == InitObserver

NextGoto ==
    \/ GotoRequest
    \/ GotoEnter
    \/ GotoCommand
    \/ GotoVerify
    \/ GotoRetry

SpecGoto == InitGoto /\ [][NextGoto]_vars

\* The call has ended after at least one goto command.
GotoEnded == ptg.pc = "done" /\ Len(ptg.commanded) >= 1

\* The k-th goto command was sent and the position read back after it is
\* more than 0.1 deg from the position it commanded.
Missed(k) ==
    /\ k <= Len(ptg.commanded)
    /\ angular_separation(ptg.commanded[k], ptg.reported[k]) > PointingTolerance

\* The outcome of a call whose first goto missed and that retried.
RetriedOnce ==
    /\ Len(ptg.commanded) = 2
    /\ ptg.slept = RetryDelay
    /\ IF Missed(2)
       THEN ~ptg.enabled /\ ptg.err = "102" /\ ~ptg.returned
       ELSE ptg.enabled /\ ptg.err = "" /\ ptg.returned

\* The axes are disabled only with error 102 after a goto that missed.
DisabledOnlyAfterMiss ==
    (ptg.pc # "none" /\ ~ptg.enabled) =>
        /\ ptg.pc = "done"
        /\ ptg.err = "102"
        /\ Missed(Len(ptg.commanded))

C39_RetrySameCoordinates ==
    (ptg.pc # "none" /\ ptg.mode = "radec" /\ Len(ptg.commanded) = 2)
        => /\ ptg.commanded[2] = ptg.commanded[1]
           /\ ptg.commanded[2] =
                 ptg.target + (IF ptg.use_pointing_offsets
                               THEN ptg.offset ELSE 0)

(***************************************************************************)
(* GortDeviceSet.call_device_method and GortDeviceSet._send_command_all    *)
(*                                                                         *)
(* Both await asyncio.gather() over one coroutine per device, without      *)
(* return_exceptions: gather wraps each coroutine in a task, propagates    *)
(* the first exception to the caller at once, and leaves the other tasks   *)
(* running.                                                                *)
(***************************************************************************)

\* The devices of the set.
Devices == {"sci", "skye", "skyw", "spec"}

fanRest == <<owVars, domeVars, notVars, obsVars, std, ptg, ract,
            tilec, act, grp, gmon>>

\* The members whose operation has not completed.
StillRunning == {d \in Devices : fan.member[d] \in {"scheduled", "running"}}

\* A client calls the set operation: one task per device is scheduled and
\* the caller awaits the gather.
FanOutCall ==
    /\ fan.pc = "none"
    /\ \E op \in {"call_device_method", "_send_command_all"} :
         fan' = [pc |-> "gather", op |-> op,
                 member |-> [d \in Devices |-> "scheduled"],
                 caller |-> "waiting", peers_running |-> {}]
    /\ UNCHANGED fanRest

\* The task of one member starts running and reaches its first await.
FanMemberStart(d) ==
    /\ fan.pc = "gather"
    /\ fan.member[d] = "scheduled"
    /\ fan' = [fan EXCEPT !.member[d] = "running"]
    /\ UNCHANGED fanRest

\* The operation of one member returns: the gather returns to the caller
\* when it was the last one and none has raised.
FanMemberReturns(d) ==
    /\ fan.pc = "gather"
    /\ fan.member[d] = "running"
    /\ LET member == [fan.member EXCEPT ![d] = "returned"]
       IN  fan' = [fan EXCEPT
                     !.member = member,
                     !.caller = IF /\ fan.caller = "waiting"
                                   /\ \A e \in Devices : member[e] = "returned"
                                THEN "returned" ELSE @]
    /\ UNCHANGED fanRest

\* The operation of one member raises: the first exception is set on the
\* gather and reaches the caller; the other tasks are left as they are.
FanMemberRaises(d) ==
    /\ fan.pc = "gather"
    /\ fan.member[d] = "running"
    /\ fan' = [fan EXCEPT
                  !.member[d] = "raised",
                  !.caller = IF fan.caller = "waiting" THEN "raised" ELSE @,
                  !.peers_running = IF fan.caller = "waiting"
                                    THEN StillRunning \ {d} ELSE @]
    /\ UNCHANGED fanRest

InitFanOut == InitObserver

NextFanOut ==
    \/ FanOutCall
    \/ \E d \in Devices : FanMemberStart(d)
    \/ \E d \in Devices : FanMemberReturns(d)
    \/ \E d \in Devices : FanMemberRaises(d)

SpecFanOut == InitFanOut /\ [][NextFanOut]_vars

\* C16: when the caller of the set operation gets the failure of a member,
\* the operation of every other member had completed.
C16_FailTogether ==
    (fan.pc # "none" /\ fan.caller = "raised") => fan.peers_running = {}

(***************************************************************************)
(* RemoteActor and RemoteCommand over the one client                       *)
(*                                                                         *)
(* ract.closed is the state of the client's connection.  Each actor has    *)
(* its own _connect_lock, its cached model and its command set.  Each      *)
(* caller makes one call: a remote command (RemoteCommand.__call__) or a   *)
(* refresh of the actor (RemoteActor.refresh, that is init).  What         *)
(* RemoteCommand.__call__ makes of the replies of a finished command is    *)
(* followed on its own, for one command, in SpecRemoteCommand.             *)
(***************************************************************************)

Actors == {"lvm.sci.pwi", "lvm.spec.pwi"}
Callers == {1, 2}

\* How many times the connection drops.
MaxDisconnects == 2

\* The terminal statuses of a command.
Statuses == {"DONE", "FAILED", "TIMEDOUT"}

\* The reply bodies of a command: empty, a keyword, an error keyword.
NoBody == [k \in {} |-> ""]
Bodies == {NoBody, [text |-> "t"], [error |-> "e1"], [error |-> "e2"]}
MaxReplies == 2
ReplyLists == UNION {[1..n -> Bodies] : n \in 0..MaxReplies}

\* The command models an actor may return.
Models == {"m1", "m2"}

remRest == <<owVars, domeVars, notVars, obsVars, std, ptg, fan,
            tilec, act, grp, gmon>>

\* CommandStatus.did_succeed and CommandStatus.did_fail on a terminal
\* status.
did_succeed(st) == st = "DONE"

\* Mutant of did_fail: no st counts as failed.
did_fail_Mut(st) == FALSE

did_fail(st) == st \in {"FAILED", "TIMEDOUT"}

\* Mutant of ActorReplyGet: the last occurrence of the keyword.
ActorReplyGet_Mut(replies, key) ==
    LET has == {i \in DOMAIN replies : key \in DOMAIN replies[i]}
    IN  IF has = {} THEN "None"
        ELSE replies[CHOOSE i \in has : \A j \in has : j <= i][key]

\* ActorReply.get: the first occurrence of a keyword in the replies.
ActorReplyGet(replies, key) ==
    LET has == {i \in DOMAIN replies : key \in DOMAIN replies[i]}
    IN  IF has = {} THEN "None"
        ELSE replies[CHOOSE i \in has : \A j \in has : i <= j][key]

\* The replies RemoteCommand.__call__ keeps: the non-empty bodies.
KeptReplies(replies) == SelectSeq(replies, LAMBDA body : DOMAIN body # {})

\* RemoteCommand.__call__ once the command has finished: the ActorReply, or
\* GortError with the error text and the error code.
RemoteCommandResult(st, replies) ==
    LET kept == KeptReplies(replies)
        error == ActorReplyGet(kept, "error")
    IN  IF ~did_succeed(st)
        THEN [raised |-> TRUE, replies |-> <<>>,
              error |-> IF error # "None" THEN error ELSE "",
              error_code |-> 2]
        ELSE [raised |-> FALSE, replies |-> kept, error |-> "",
              error_code |-> 0]

\* Mutant of InTry: every send is inside the try block.
InTry_Mut(attempt) == TRUE

\* send_raw_command: only the first send is inside the try block.
InTry(attempt) == attempt = 1

IdleCall ==
    [pc |-> "idle", kind |-> "none", actor |-> "none", sends |-> <<>>,
     nstart |-> 0, start_ok |-> FALSE, err |-> "", warned |-> FALSE,
     status |-> "none"]

\* The client is created and the actors are added: add_actor creates one
\* RemoteActor, with its lock, per actor name.
RemoteClientInit ==
    /\ ract.pc = "none"
    /\ \E closed \in BOOLEAN, model \in {"empty", "m1"} :
         ract' = [pc |-> "up", closed |-> closed, ndisc |-> 0,
                  lock |-> [a \in Actors |-> 0],
                  model |-> [a \in Actors |-> model],
                  commands |-> [a \in Actors |-> model],
                  calls |-> [c \in Callers |-> IdleCall]]
    /\ UNCHANGED remRest

\* The connection drops.
Disconnect ==
    /\ ract.pc = "up"
    /\ ~ract.closed
    /\ ract.ndisc < MaxDisconnects
    /\ ract' = [ract EXCEPT !.closed = TRUE, !.ndisc = @ + 1]
    /\ UNCHANGED remRest

\* A caller invokes a remote command of an actor, or refreshes an actor:
\* init() raises RuntimeError when the connection is closed.
RemoteCall(c) ==
    /\ ract.pc = "up"
    /\ ract.calls[c].pc = "idle"
    /\ \E kind \in {"command", "refresh"}, a \in Actors :
         ract' = [ract EXCEPT !.calls[c] =
                    IF kind = "refresh" /\ ract.closed
                    THEN [@ EXCEPT !.kind = kind, !.actor = a,
                                   !.err = "RuntimeError", !.pc = "done"]
                    ELSE [@ EXCEPT !.kind = kind, !.actor = a,
                                   !.pc = "lock"]]
    /\ UNCHANGED remRest

\* send_raw_command: the caller gets the _connect_lock of the actor.
AcquireConnectLock(c) ==
    /\ ract.pc = "up"
    /\ ract.calls[c].pc = "lock"
    /\ ract.lock[ract.calls[c].actor] = 0
    /\ ract' = [ract EXCEPT !.lock[ract.calls[c].actor] = c,
                            !.calls[c].pc = "send"]
    /\ UNCHANGED remRest

\* client.send_command: on an open connection the command is sent and the
\* lock released; on a closed connection the send raises, and the caller
\* goes on to client.start() when the send is inside the try block.
SendCommand(c) ==
    /\ ract.pc = "up"
    /\ ract.calls[c].pc = "send"
    /\ LET call == ract.calls[c]
           attempt == Len(call.sends) + 1
       IN  IF ~ract.closed
           THEN ract' = [ract EXCEPT
                           !.lock[call.actor] = 0,
                           !.calls[c].sends = Append(@, "sent"),
                           !.calls[c].pc = "await"]
           ELSE IF InTry(attempt)
                THEN ract' = [ract EXCEPT
                                !.calls[c].sends = Append(@, "closed"),
                                !.calls[c].pc = "start"]
                ELSE ract' = [ract EXCEPT
                                !.lock[call.actor] = 0,
                                !.calls[c].sends = Append(@, "closed"),
                                !.calls[c].err = "closed",
                                !.calls[c].pc = "done"]
    /\ UNCHANGED remRest

\* client.start() ends: the connection is open again and the command is
\* sent again, or start() raises and the exception leaves the call.
ClientStart(c) ==
    /\ ract.pc = "up"
    /\ ract.calls[c].pc = "start"
    /\ \E ok \in BOOLEAN :
         IF ok
         THEN ract' = [ract EXCEPT !.closed = FALSE,
                                  !.calls[c].nstart = @ + 1,
                                  !.calls[c].start_ok = TRUE,
                                  !.calls[c].pc = "send"]
         ELSE ract' = [ract EXCEPT !.lock[ract.calls[c].actor] = 0,
                                  !.calls[c].nstart = @ + 1,
                                  !.calls[c].start_ok = FALSE,
                                  !.calls[c].err = "start",
                                  !.calls[c].pc = "done"]
    /\ UNCHANGED remRest

\* The command finishes.  RemoteCommand.__call__ builds its result;
\* init() warns when the command failed and otherwise replaces the model
\* and the command set of the actor.
CommandFinishes(c) ==
    /\ ract.pc = "up"
    /\ ract.calls[c].pc = "await"
    /\ LET call == ract.calls[c]
       IN  IF call.kind = "command"
           THEN \E st \in Statuses :
                  ract' = [ract EXCEPT
                     !.calls[c].status = st,
                     !.calls[c].err = IF did_succeed(st) THEN ""
                                      ELSE "GortError",
                     !.calls[c].pc = "done"]
           ELSE \E st \in Statuses, model \in Models :
                  IF did_fail(st)
                  THEN ract' = [ract EXCEPT !.calls[c].status = st,
                                           !.calls[c].warned = TRUE,
                                           !.calls[c].pc = "done"]
                  ELSE ract' = [ract EXCEPT !.calls[c].status = st,
                                           !.model[call.actor] = model,
                                           !.commands[call.actor] = model,
                                           !.calls[c].pc = "done"]
    /\ UNCHANGED remRest

InitRemote == InitObserver

NextRemote ==
    \/ RemoteClientInit
    \/ Disconnect
    \/ \E c \in Callers : RemoteCall(c)
    \/ \E c \in Callers : AcquireConnectLock(c)
    \/ \E c \in Callers : SendCommand(c)
    \/ \E c \in Callers : ClientStart(c)
    \/ \E c \in Callers : CommandFinishes(c)

SpecRemote == InitRemote /\ [][NextRemote]_vars

\* The commands of an actor, each by the names of its groups from the
\* root group down and its own name, and the arguments of a call.
CommandPaths == {<<"cmd">>, <<"grp", "cmd">>, <<"grp", "sub", "cmd">>}
CommandArgs == {<<>>, <<"arg">>}

\* RemoteCommand.get_command_string: unclick builds the string from the
\* model of this command alone, its name and the arguments given.  A
\* string is the sequence of its space-separated words.
get_command_string(path, args) == <<path[Len(path)]>> \o args

\* The string RemoteCommand.__call__ passes to send_raw_command: the
\* command string of _parent, if there is one, without arguments, then
\* the command string of the command itself.
WireString(path, args) ==
    LET parent_string ==
            IF Len(path) > 1
            THEN get_command_string(SubSeq(path, 1, Len(path) - 1), <<>>)
            ELSE <<>>
    IN  parent_string \o get_command_string(path, args)

\* The keywords looked up in an ActorReply.
ReplyKeys == {"text", "error", "other"}

\* Mutant of ActorReplyFlatten: the first value of a keyword is retained.
ActorReplyFlatten_Mut(replies) ==
    LET keys == UNION {DOMAIN replies[i] : i \in DOMAIN replies}
    IN  [k \in keys |-> ActorReplyGet(replies, k)]

\* ActorReply.flatten: one dictionary, each keyword with the value of the
\* last reply that has it.
ActorReplyFlatten(replies) ==
    LET keys == UNION {DOMAIN replies[i] : i \in DOMAIN replies}
    IN  [k \in keys |->
            LET has == {i \in DOMAIN replies : k \in DOMAIN replies[i]}
            IN  replies[CHOOSE i \in has : \A j \in has : j <= i][k]]

\* RemoteCommand.__call__ for one command: the command string is sent and
\* send_raw_command returns the finished command with its status and its
\* replies.
RemoteCommandSent ==
    /\ ract.pc = "none"
    /\ \E st \in Statuses, replies \in ReplyLists,
          path \in CommandPaths, args \in CommandArgs :
         ract' = [pc |-> "finished", status |-> st, replies |-> replies,
                  path |-> path, args |-> args,
                  wire |-> WireString(path, args)]
    /\ UNCHANGED remRest

\* RemoteCommand.__call__ returns the ActorReply or raises GortError;
\* flatten() and get() are applied to the ActorReply it built.
RemoteCommandReturns ==
    /\ ract.pc = "finished"
    /\ ract' = [pc |-> "returned", status |-> ract.status,
                replies |-> ract.replies,
                path |-> ract.path, args |-> ract.args, wire |-> ract.wire,
                result |-> RemoteCommandResult(ract.status, ract.replies),
                flatten |-> ActorReplyFlatten(KeptReplies(ract.replies)),
                get |-> [k \in ReplyKeys |->
                           ActorReplyGet(KeptReplies(ract.replies), k)]]
    /\ UNCHANGED remRest

NextRemoteCommand ==
    \/ RemoteCommandSent
    \/ RemoteCommandReturns

SpecRemoteCommand == InitRemote /\ [][NextRemoteCommand]_vars

\* The first reply body, if any, that has the keyword "error".
FirstError(replies) ==
    IF \E i \in DOMAIN replies : "error" \in DOMAIN replies[i]
    THEN LET i == CHOOSE i \in DOMAIN replies :
                    /\ "error" \in DOMAIN replies[i]
                    /\ \A j \in 1..(i - 1) : "error" \notin DOMAIN replies[j]
         IN  replies[i].error
    ELSE ""

\* One sequence is the other with its empty bodies left out, in order.
RECURSIVE NonEmptyInOrder(_, _)
NonEmptyInOrder(kept, replies) ==
    IF replies = <<>> THEN kept = <<>>
    ELSE IF DOMAIN Head(replies) = {}
         THEN NonEmptyInOrder(kept, Tail(replies))
         ELSE /\ kept # <<>>
              /\ Head(kept) = Head(replies)
              /\ NonEmptyInOrder(Tail(kept), Tail(replies))

\* C19: a remote command that ends with status DONE returns the non-empty
\* reply bodies in order; one that ends with any other status raises the
\* error with the first "error" value among the replies, or the empty
\* text, and error code 2.
C19_RemoteCommandResult ==
    ract.pc = "returned" =>
        IF ract.status = "DONE"
        THEN /\ ~ract.result.raised
             /\ NonEmptyInOrder(ract.result.replies, ract.replies)
        ELSE /\ ract.result.raised
             /\ ract.result.error = FirstError(ract.replies)
             /\ ract.result.error_code = 2

\* A command timed out after two replies with different error texts: the
\* error raised carries the first one.
C19_Witness ==
    /\ ract.pc = "returned"
    /\ ract.status = "TIMEDOUT"
    /\ ract.replies = <<[error |-> "e1"], [error |-> "e2"]>>
    /\ ract.result.raised
    /\ ract.result.error = "e1"

\* send_raw_command of the caller has sent the command or has raised.
SendEnded(c) ==
    /\ ract.pc = "up"
    /\ ract.calls[c].pc \in {"await", "done"}
    /\ ract.calls[c].sends # <<>>

\* The re-send of the caller raised and its exception left the call.
ResendPropagates(c) ==
    ract.calls[c].sends[2] = "closed" =>
        ract.calls[c].pc = "done" /\ ract.calls[c].err = "closed"

\* C17 as stated: every call whose send finds the connection closed
\* restarts the client once and sends the command once more; when that
\* send fails too its error leaves the call.
C17_RestartOnceResendOnce_Original ==
    \A c \in Callers :
        (SendEnded(c) /\ ract.calls[c].sends[1] = "closed") =>
            /\ ract.calls[c].nstart = 1
            /\ Len(ract.calls[c].sends) = 2
            /\ ResendPropagates(c)

\* C17: a call whose send finds the connection closed calls client.start()
\* exactly once; when start() returns the command is sent exactly once
\* more, and when that send fails too its error leaves the call; when
\* start() raises, its error leaves the call and the command is not sent
\* again.  A call whose first send succeeds does not restart the client.
\* No call restarts the client twice or sends more than twice.
C17_RestartOnceResendOnce ==
    \A c \in Callers :
        /\ ract.pc = "up" =>
               ract.calls[c].nstart <= 1 /\ Len(ract.calls[c].sends) <= 2
        /\ (SendEnded(c) /\ ract.calls[c].sends[1] = "closed") =>
               /\ ract.calls[c].nstart = 1
               /\ IF ract.calls[c].start_ok
                  THEN /\ Len(ract.calls[c].sends) = 2
                       /\ ResendPropagates(c)
                  ELSE /\ Len(ract.calls[c].sends) = 1
                       /\ ract.calls[c].pc = "done"
                       /\ ract.calls[c].err = "start"
        /\ (SendEnded(c) /\ ract.calls[c].sends[1] = "sent") =>
               /\ ract.calls[c].nstart = 0
               /\ Len(ract.calls[c].sends) = 1

\* A call found the connection closed, restarted the client, found the
\* connection closed again and ended with that error.
C17_Witness ==
    /\ ract.pc = "up"
    /\ \E c \in Callers :
         /\ ract.calls[c].pc = "done"
         /\ ract.calls[c].sends = <<"closed", "closed">>
         /\ ract.calls[c].nstart = 1
         /\ ract.calls[c].err = "closed"

\* The callers that are inside client.start().
Restarting == {c \in Callers : ract.calls[c].pc = "start"}

\* C18: no two restarts of the client are in progress at the same time.
C18_OneRestartAtATime ==
    ract.pc = "up" => Cardinality(Restarting) <= 1

\* This step ends a refresh of caller c.
RefreshEnds(c) ==
    /\ ract.pc = "up"
    /\ ract.calls[c].pc # "done"
    /\ ract'.calls[c].pc = "done"
    /\ ract'.calls[c].kind = "refresh"

\* This step leaves the cached model and command set of every actor as
\* they were.
SchemaUnchanged ==
    ract'.model = ract.model /\ ract'.commands = ract.commands

\* C20 as stated: a refresh that ends without a successful fetch has
\* warned, has raised no error and has left the models and command sets as
\* they were.
C20_FailedRefreshKeepsSchema_Original ==
    [][\A c \in Callers :
          (RefreshEnds(c) /\ ract'.calls[c].status # "DONE") =>
              /\ ract'.calls[c].warned
              /\ ract'.calls[c].err = ""
              /\ SchemaUnchanged]_vars

\* C20: a refresh whose command ends with a failed status warns, raises
\* no error and leaves the models and command sets as they were; a refresh
\* that finds the connection closed, or whose send or restart raises,
\* raises that error without a warning and leaves them as they were too;
\* the model or command set of an actor changes only in a step that ends a
\* refresh of that actor whose command succeeded.
C20_FailedRefreshKeepsSchema ==
    [][/\ \A c \in Callers :
            (RefreshEnds(c) /\ ract'.calls[c].status # "DONE") =>
               /\ SchemaUnchanged
               /\ IF ract'.calls[c].status \in {"FAILED", "TIMEDOUT"}
                  THEN ract'.calls[c].warned /\ ract'.calls[c].err = ""
                  ELSE /\ ~ract'.calls[c].warned
                       /\ ract'.calls[c].err \in
                              {"RuntimeError", "closed", "start"}
       /\ \A a \in Actors :
            (/\ ract.pc = "up"
             /\ \/ ract'.model[a] # ract.model[a]
                \/ ract'.commands[a] # ract.commands[a])
            => \E c \in Callers :
                  /\ RefreshEnds(c)
                  /\ ract'.calls[c].actor = a
                  /\ ract'.calls[c].status = "DONE"
                  /\ ract'.calls[c].err = ""]_vars

\* A refresh of an actor with a cached model ended with a failed command
\* and a warning, and the cached model is still there.
C20_Witness ==
    /\ ract.pc = "up"
    /\ \E c \in Callers :
         /\ ract.calls[c].pc = "done"
         /\ ract.calls[c].kind = "refresh"
         /\ ract.calls[c].status = "FAILED"
         /\ ract.calls[c].warned
         /\ ract.model[ract.calls[c].actor] = "m1"
         /\ ract.commands[ract.calls[c].actor] = "m1"

\* C21: the string sent for a command is the names of all its groups from
\* the root group down to its parent, without arguments, followed by the
\* name and the arguments of the command; a top-level command is sent
\* without prefix.
C21_FullParentChain ==
    ract.pc \in {"finished", "returned"} => ract.wire = ract.path \o ract.args

\* C22: flatten() maps each keyword to its value in the last reply body
\* that has it, and has no other keyword; get(key) is the value in the
\* first reply body that has the keyword, None when no body has it.
C22_FlattenLastGetFirst ==
    ract.pc = "returned" =>
        LET bodies == KeptReplies(ract.replies)
            Has(k) == {i \in DOMAIN bodies : k \in DOMAIN bodies[i]}
        IN  /\ \A k \in ReplyKeys :
                 /\ k \in DOMAIN ract.flatten <=> Has(k) # {}
                 /\ Has(k) = {} => ract.get[k] = "None"
                 /\ \A i \in Has(k) :
                      /\ (\A j \in Has(k) : j <= i)
                            => ract.flatten[k] = bodies[i][k]
                      /\ (\A j \in Has(k) : i <= j)
                            => ract.get[k] = bodies[i][k]
            /\ DOMAIN ract.flatten \subseteq ReplyKeys

\* The replies {error: e1} then {error: e2}: flatten has e2, get has e1.
C22_Witness ==
    /\ ract.pc = "returned"
    /\ ract.replies = <<[error |-> "e1"], [error |-> "e2"]>>
    /\ ract.flatten["error"] = "e2"
    /\ ract.get["error"] = "e1"

(***************************************************************************)
(* Tile.__init__: set_sky_coords and set_spec_coords                       *)
(*                                                                         *)
(* Coordinates are positions along one great circle, in degrees.           *)
(* tilec.up is the set of positions whose altitude is above 30 deg while   *)
(* the tile is built.                                                      *)
(***************************************************************************)

\* The positions, the science position, the entries of the sky table.
Positions == 0..4
SciencePositions == {2}
SkyTable == {1, 3, 4}

\* A sky telescope without coordinates (None).
NoCoords == -1

\* The standards given to the tile.
SpecInputs == {<<>>, <<0>>, <<3>>, <<0, 3>>, <<3, 0>>, <<3, 4>>}

tileRest == <<owVars, domeVars, notVars, obsVars, std, ptg, fan, ract,
             act, grp, gmon>>

\* Coordinates.is_observable.
is_observable(coords, up) == coords \in up

\* QuerableCoordinates.from_science_coordinates on the sky table: the
\* entries more than 1 deg from every excluded position and above 30 deg
\* that are closest to the position given; the table has no order, so
\* argmin may return any of the closest entries.
from_science_coordinates(sci_coords, exclude_coordinates, up) ==
    LET skycoords == {c \in SkyTable :
                        /\ \A ex \in exclude_coordinates :
                              angular_separation(c, ex) > 1
                        /\ c \in up}
    IN  {c \in skycoords :
            \A d \in skycoords : angular_separation(c, sci_coords)
                                   <= angular_separation(d, sci_coords)}

\* QuerableCoordinates.verify_and_replace: the positions the coordinates
\* may have afterwards; none when the replacement raises.
verify_and_replace(coords, exclude_coordinates, up) ==
    IF is_observable(coords, up) THEN {coords}
    ELSE from_science_coordinates(coords, exclude_coordinates, up)

\* One pass of the loop of set_sky_coords for a telescope: the values
\* valid_sky_coords may have for it, NoCoords when it gets no entry.
SkyCoordsFor(telescope, given, skye, sci_coords, allow_replacement, up) ==
    IF ~allow_replacement THEN {given}
    ELSE LET assigned_coordinates == {skye} \ {NoCoords}
             identical == /\ given # NoCoords
                          /\ telescope = "skyw"
                          /\ skye # NoCoords
                          /\ given = skye
             replace == given = NoCoords \/ identical
             tel_coords ==
                 IF replace
                 THEN from_science_coordinates(sci_coords,
                                               assigned_coordinates, up)
                 ELSE {given}
             verified ==
                 UNION {verify_and_replace(c, assigned_coordinates, up) :
                           c \in tel_coords}
         IN  IF verified = {} THEN {NoCoords} ELSE verified

\* Tile.set_spec_coords.
set_spec_coords(spec_coords, reject_invisible, up) ==
    SelectSeq(spec_coords,
              LAMBDA coords : ~(reject_invisible /\ ~is_observable(coords, up)))

\* Tile(sci_coords, sky_coords, spec_coords, allow_replacement) is called.
TileInit ==
    /\ tilec.pc = "none"
    /\ \E sci \in SciencePositions,
          skye, skyw \in Positions \cup {NoCoords},
          spec \in SpecInputs, allow_replacement \in BOOLEAN,
          up \in SUBSET Positions :
         tilec' = [pc |-> "set_sky_coords", sci_coords |-> sci,
                   given |-> [skye |-> skye, skyw |-> skyw, spec |-> spec],
                   allow_replacement |-> allow_replacement, up |-> up]
    /\ UNCHANGED tileRest

\* Tile.set_sky_coords: skye, then skyw.
TileSetSkyCoords ==
    /\ tilec.pc = "set_sky_coords"
    /\ \E skye \in SkyCoordsFor("skye", tilec.given.skye, NoCoords,
                                 tilec.sci_coords, tilec.allow_replacement,
                                 tilec.up) :
       \E skyw \in SkyCoordsFor("skyw", tilec.given.skyw, skye,
                                 tilec.sci_coords, tilec.allow_replacement,
                                 tilec.up) :
         tilec' = [pc |-> "set_spec_coords", sci_coords |-> tilec.sci_coords,
                   given |-> tilec.given,
                   allow_replacement |-> tilec.allow_replacement,
                   up |-> tilec.up, skye |-> skye, skyw |-> skyw]
    /\ UNCHANGED tileRest

\* Tile.set_spec_coords with reject_invisible=allow_replacement, and the
\* dictionary of the tile.
TileSetSpecCoords ==
    /\ tilec.pc = "set_spec_coords"
    /\ tilec' = [pc |-> "done", sci_coords |-> tilec.sci_coords,
                 given |-> tilec.given,
                 allow_replacement |-> tilec.allow_replacement,
                 up |-> tilec.up, skye |-> tilec.skye, skyw |-> tilec.skyw,
                 spec |-> set_spec_coords(tilec.given.spec,
                                          tilec.allow_replacement, tilec.up)]
    /\ UNCHANGED tileRest

InitTile == InitObserver

NextTile ==
    \/ TileInit
    \/ TileSetSkyCoords
    \/ TileSetSpecCoords

SpecTile == InitTile /\ [][NextTile]_vars

\* The standards given that are not observable.
InvalidStandards ==
    {i \in DOMAIN tilec.given.spec : tilec.given.spec[i] \notin tilec.up}

\* C23: in a tile built with allow_replacement=False the standards are
\* the observable standards given, in order, so the list is shorter than
\* the input by the number of invalid standards; and no invalid sky target
\* is kept.
C23_InvalidDroppedNotReplaced ==
    (tilec.pc = "done" /\ ~tilec.allow_replacement) =>
        /\ Len(tilec.spec) = Len(tilec.given.spec) - Cardinality(InvalidStandards)
        /\ \A i \in DOMAIN tilec.spec : tilec.spec[i] \in tilec.up
        /\ \A tel \in {"skye", "skyw"} :
              tilec[tel] \in tilec.up \cup {NoCoords}

\* C24: in a tile built with allow_replacement=True every sky coordinate
\* is observable, a sky target given below 30 deg is replaced by a
\* different entry of the sky table, and when one of the two sky targets
\* was given below 30 deg the two sky coordinates of the tile are more
\* than 1 deg apart.
C24_SkyObservableAndApart ==
    (tilec.pc = "done" /\ tilec.allow_replacement) =>
        /\ \A tel \in {"skye", "skyw"} :
              /\ tilec[tel] # NoCoords => tilec[tel] \in tilec.up
              /\ (tilec.given[tel] # NoCoords /\ tilec.given[tel] \notin tilec.up
                     /\ tilec[tel] # NoCoords)
                  => tilec[tel] \in SkyTable \ {tilec.given[tel]}
        /\ (/\ tilec.skye # NoCoords /\ tilec.skyw # NoCoords
            /\ \E tel \in {"skye", "skyw"} :
                  /\ tilec.given[tel] # NoCoords
                  /\ tilec.given[tel] \notin tilec.up)
              => angular_separation(tilec.skye, tilec.skyw) > 1

(***************************************************************************)
(* DomeHelper.startup and DomeHelper.shutdown under _action_lock           *)
(*                                                                         *)
(* act.lock is _action_lock: 0 or the task holding it.  The body of        *)
(* startup is gort.startup() then open(); the body of shutdown is the      *)
(* task group (lamps off, guiders stop, close) then telescopes.park().     *)
(* The task group is left only when its three tasks have ended.            *)
(* act.move_lock is _move_lock, taken by open() and close(), whether       *)
(* called directly, by startup() or by the task group of shutdown().       *)
(***************************************************************************)

actRest == <<owVars, domeVars, notVars, obsVars, std, ptg, fan, ract, tilec,
            grp, gmon>>

\* The steps inside the two bodies, and the step after each.
BodySteps == {"gort_startup", "open", "group", "park"}

AfterStep(step) ==
    IF step = "gort_startup" THEN "open"
    ELSE IF step = "group" THEN "park"
    ELSE "done"

\* Mutant of ActionLockFree: the lock is not honoured.
ActionLockFree_Mut(lock) == TRUE

\* _action_lock can be acquired.
ActionLockFree(lock) == lock = 0

\* Mutant of LockAfterExit: the lock is kept when the block is left with
\* an exception.
LockAfterExit_Mut(lock, t, leaves, ok) ==
    IF leaves /\ ok /\ lock = t THEN 0 ELSE lock

\* async with lock: the holder releases the lock when it leaves the block,
\* normally or with an exception.
LockAfterExit(lock, t, leaves, ok) ==
    IF leaves /\ lock = t THEN 0 ELSE lock

\* The steps made inside open() or close(), under _move_lock; "move" is a
\* direct call of open() or close().
MoveSteps == {"open", "group", "move"}

\* The DomeHelper is created.
DomeHelperCreated ==
    /\ act.pc = "none"
    /\ act' = [pc |-> "up", lock |-> 0, move_lock |-> 0,
               task |-> [t \in Tasks |-> [pc |-> "idle", op |-> "none",
                                          force |-> FALSE,
                                          raised |-> FALSE]]]
    /\ UNCHANGED actRest

\* A task calls startup(), open(), close() or shutdown(retry, force):
\* shutdown returns at once when the dome is closed or closing and force
\* is false.
ActionCall(t) ==
    /\ act.pc = "up"
    /\ act.task[t].pc = "idle"
    /\ \/ act' = [act EXCEPT !.task[t].op = "startup", !.task[t].pc = "wait"]
       \/ \E op \in {"open", "close"} :
            act' = [act EXCEPT !.task[t].op = op, !.task[t].pc = "move"]
       \/ \E closing, force \in BOOLEAN :
            act' = [act EXCEPT !.task[t].op = "shutdown",
                               !.task[t].force = force,
                               !.task[t].pc = IF closing /\ ~force
                                              THEN "done" ELSE "wait"]
    /\ UNCHANGED actRest

\* async with self._action_lock: the task enters the body.
ActionEnter(t) ==
    /\ act.pc = "up"
    /\ act.task[t].pc = "wait"
    /\ ActionLockFree(act.lock)
    /\ act' = [act EXCEPT !.lock = t,
                          !.task[t].pc = IF act.task[t].op = "startup"
                                         THEN "gort_startup" ELSE "group"]
    /\ UNCHANGED actRest

\* async with self._move_lock: open() or close() enters its body.
MoveEnter(t) ==
    /\ act.pc = "up"
    /\ act.task[t].pc \in MoveSteps
    /\ act.move_lock # t
    /\ MoveLockFree(act.move_lock)
    /\ act' = [act EXCEPT !.move_lock = t]
    /\ UNCHANGED actRest

\* A step ends: the next step begins, or the call ends and its locks are
\* released, after the last step or with an exception.  open() and
\* close() return or raise only from under _move_lock; the task group of
\* shutdown() can also fail while its close() waits for _move_lock, which
\* cancels that close().
ActionStep(t) ==
    /\ act.pc = "up"
    /\ act.task[t].pc \in BodySteps \cup MoveSteps
    /\ \E ok \in BOOLEAN :
         /\ act.task[t].pc \in MoveSteps
              => act.move_lock = t \/ (act.task[t].pc = "group" /\ ~ok)
         /\ LET next == IF ok THEN AfterStep(act.task[t].pc) ELSE "done"
            IN  act' = [act EXCEPT
                          !.task[t].pc = next,
                          !.task[t].raised = ~ok,
                          !.move_lock = LockAfterExit(@, t, TRUE, ok),
                          !.lock = LockAfterExit(@, t, next = "done", ok)]
    /\ UNCHANGED actRest

InitActions == InitObserver

NextActions ==
    \/ DomeHelperCreated
    \/ \E t \in Tasks : ActionCall(t)
    \/ \E t \in Tasks : ActionEnter(t)
    \/ \E t \in Tasks : MoveEnter(t)
    \/ \E t \in Tasks : ActionStep(t)

SpecActions == InitActions /\ [][NextActions]_vars

\* The event loop runs every task that can run, asyncio.Lock hands a
\* released lock to a waiter, and every command awaited inside a step
\* returns or raises.
SpecActionsFair ==
    /\ SpecActions
    /\ \A t \in Tasks : /\ WF_vars(ActionEnter(t))
                        /\ WF_vars(MoveEnter(t))
                        /\ WF_vars(ActionStep(t))

\* The tasks inside the body of startup() or shutdown().
InBody == {t \in Tasks : act.task[t].pc \in BodySteps}

\* C29: at most one task is inside the body of startup() or shutdown().
C29_ActionsExclusive ==
    act.pc = "up" => Cardinality(InBody) <= 1

\* A task is in the task group of shutdown() while another has called
\* startup() and waits for the lock.
C29_Witness ==
    /\ act.pc = "up"
    /\ \E t, u \in Tasks :
         /\ act.task[t].op = "shutdown" /\ act.task[t].pc = "group"
         /\ act.task[u].op = "startup" /\ act.task[u].pc = "wait"

\* Standards.to_header: the STDnACQ card of each row; the time and fibre
\* cards are written for the rows with observed set.
to_header(rows) == [k \in DOMAIN rows |-> [ACQ |-> rows[k].observed # 0]]

\* C34: every row of the standards data frame marked observed is marked
\* acquired, so the header reports as observed only standards that were
\* acquired.
C34_ObservedOnlyIfAcquired ==
    std.pc # "none" =>
        \A k \in DOMAIN std.rows :
            /\ std.rows[k].observed = 1 => std.rows[k].acquired = 1
            /\ to_header(std.rows)[k].ACQ => std.rows[k].acquired = 1

\* This step is the return of a wait_until_guiding that did not converge.
IsSkip == AtAwait("wait") /\ std'.skipped # std.skipped

\* C30: when guiding does not converge on a newly selected standard, the
\* loop of _iterate goes on to its next pass without raising or ending,
\* and fibsel.move_to_position is never called for that standard: it is
\* called for a standard only after guiding converged on it.
C30_SkippedNeverUncovered ==
    [][/\ IsSkip =>
            /\ std'.task = "running"
            /\ std'.ipc = "sleep"
            /\ std'.mask_moves = std.mask_moves
            /\ std'.rows = std.rows
       /\ (std.pc # "none" /\ std'.pc # "none") =>
            /\ std'.skipped \cap std'.mask_moves = {}
            /\ \A k \in std'.skipped : std'.rows[k].acquired = 0]_vars

\* Guiding did not converge on the second standard; the loop went on and
\* uncovered the fibre of the third.
C30_Witness ==
    /\ std.pc = "exposing"
    /\ std.task = "running"
    /\ std.skipped = {2}
    /\ 3 \in std.mask_moves
    /\ std.rows[3].acquired = 1

\* This step is a poll of the loop of _iterate: asyncio.sleep(1) returned.
IsPoll == AtAwait("sleep") /\ std'.now # std.now

\* The time since _iterate started, in a state of the standards record.
Elapsed(s) == s.now - s.t0

\* The latest elapsed time at which the loop of _iterate goes on.
ExitLimit(s) == s.exposure_time - 2 * ACQ_PER_STD

\* C31: the loop of _iterate ends at the first poll at which the time since
\* it started exceeds the exposure time less twice ACQ_PER_STD and at no
\* earlier poll; no move to another standard starts at that poll; and
\* when the time on a standard is used up and no standard remains, the
\* poll changes nothing, so the last standard stays the current one.
C31_ExitAtFirstLatePoll ==
    [][IsPoll =>
         /\ Elapsed(std) <= ExitLimit(std)
         /\ Elapsed(std') > ExitLimit(std) =>
               /\ std'.task = "done"
               /\ std' = [std EXCEPT !.now = std'.now, !.task = "done"]
         /\ Elapsed(std') <= ExitLimit(std) =>
               /\ std'.task = "running"
               /\ (std.n = std.idx + 1) =>
                     std' = [std EXCEPT !.now = std'.now]]_vars

\* The loop ended at a poll while the last standard had used up its time
\* some polls before.
C31_Witness ==
    /\ std.pc = "exposing"
    /\ std.task = "done"
    /\ std.n = 4 /\ std.idx = 3
    /\ Elapsed(std) > ExitLimit(std)
    /\ std.now - std.t0_last_std > std.tpp + 130
    /\ std.rows[4].acquired = 1 /\ std.rows[4].observed = 0

(***************************************************************************)
(* The task group of DomeHelper.shutdown                                   *)
(*                                                                         *)
(* GatheringTaskGroup is an asyncio.TaskGroup: the body of the async with  *)
(* creates three tasks (lamps off, guiders stop, close) and the group is   *)
(* left when all three have ended.  When a task ends with an exception,    *)
(* the group cancels the tasks that have not ended; a cancelled task gets  *)
(* CancelledError at the await it is suspended at, which the except        *)
(* Exception of _move does not catch.  The group then raises, so           *)
(* telescopes.park() is not reached.  The dome is moved by nobody else     *)
(* here, so the close of the group finds _move_lock free.                  *)
(***************************************************************************)

shutRest == <<owVars, domeVars, notVars, obsVars, std, ptg, fan, ract, tilec,
             act, gmon>>

\* The tasks of the group.
GroupMembers == {"lamps", "guiders", "close"}

\* The awaits of close(), in order: status(); stop() and is_local() on
\* the way to the command; the close command of the enclosure.
CloseAwaits == {"status", "pre", "command"}

\* A task of the group has not ended.
Pending(m) == m \in {"running"} \cup CloseAwaits

\* asyncio.TaskGroup: the states of the tasks after one of them raised.
AbortOthers(member, failed) ==
    [m \in GroupMembers |->
        IF m = failed THEN "raised"
        ELSE IF Pending(member[m]) THEN "cancelled"
        ELSE member[m]]

\* asyncio.TaskGroup.__aexit__: what the group does once the states of
\* its tasks are member: wait, raise, or let the body of shutdown go on.
GroupOutcome(member) ==
    IF \E m \in GroupMembers : Pending(member[m]) THEN "group"
    ELSE IF \E m \in GroupMembers : member[m] = "raised" THEN "raised"
    ELSE "park"

\* shutdown(retry, force) is called: it returns at once when the dome is
\* closed or closing and force is false, and else creates the tasks.
ShutdownCall ==
    /\ grp.pc = "none"
    /\ \E labels \in DomeLabelSets, force \in BOOLEAN :
         grp' = [pc |-> IF is_closing(labels) /\ ~force THEN "returned"
                        ELSE "group",
                 labels |-> labels, force |-> force,
                 member |-> [m \in GroupMembers |->
                               IF is_closing(labels) /\ ~force THEN "none"
                               ELSE IF m = "close" THEN "status"
                               ELSE "running"],
                 issued |-> FALSE, first |-> "none", parked |-> FALSE]
    /\ UNCHANGED shutRest

\* nps.calib.all_off() or guiders.stop() returns.
GroupTaskReturns(m) ==
    /\ grp.pc = "group"
    /\ m \in {"lamps", "guiders"}
    /\ grp.member[m] = "running"
    /\ \E member \in {[grp.member EXCEPT ![m] = "returned"]} :
         grp' = [grp EXCEPT !.member = member, !.pc = GroupOutcome(member)]
    /\ UNCHANGED shutRest

\* nps.calib.all_off() or guiders.stop() raises.
GroupTaskRaises(m) ==
    /\ grp.pc = "group"
    /\ m \in {"lamps", "guiders"}
    /\ grp.member[m] = "running"
    /\ \E member \in {AbortOthers(grp.member, m)} :
         grp' = [grp EXCEPT !.member = member,
                            !.first = IF @ = "none" THEN m ELSE @,
                            !.pc = GroupOutcome(member)]
    /\ UNCHANGED shutRest

\* close(): one await returns.  After status() the dome may be found
\* closed or closing; after the awaits before the command the enclosure
\* close command is issued; after the command close() returns.
GroupCloseStep ==
    /\ grp.pc = "group"
    /\ grp.member["close"] \in CloseAwaits
    /\ \E next \in {IF grp.member["close"] = "status"
                     THEN IF AlreadyThere("close", status(grp.labels))
                          THEN "returned" ELSE "pre"
                     ELSE IF grp.member["close"] = "pre" THEN "command"
                     ELSE "returned"} :
       \E member \in {[grp.member EXCEPT !["close"] = next]} :
         grp' = [grp EXCEPT !.member = member,
                            !.issued = @ \/ next = "command",
                            !.pc = GroupOutcome(member)]
    /\ UNCHANGED shutRest

\* close() raises: status(), stop(), is_local() or the command failed and
\* _move re-raised.
GroupCloseRaises ==
    /\ grp.pc = "group"
    /\ grp.member["close"] \in CloseAwaits
    /\ \E member \in {AbortOthers(grp.member, "close")} :
         grp' = [grp EXCEPT !.member = member,
                            !.first = IF @ = "none" THEN "close" ELSE @,
                            !.pc = GroupOutcome(member)]
    /\ UNCHANGED shutRest

\* telescopes.park() ends and shutdown() with it.
ShutdownPark ==
    /\ grp.pc = "park"
    /\ \E ok \in BOOLEAN :
         grp' = [grp EXCEPT !.parked = ok,
                            !.pc = IF ok THEN "returned" ELSE "raised"]
    /\ UNCHANGED shutRest

InitShutdown == InitObserver

NextShutdown ==
    \/ ShutdownCall
    \/ \E m \in GroupMembers : GroupTaskReturns(m)
    \/ \E m \in GroupMembers : GroupTaskRaises(m)
    \/ GroupCloseStep
    \/ GroupCloseRaises
    \/ ShutdownPark

SpecShutdown == InitShutdown /\ [][NextShutdown]_vars

\* C32: when shutdown() has ended after turning the lamps off or stopping
\* the guiders failed, and close() had not found the dome closed or
\* closing, the close command of the enclosure was issued and close() was
\* not cancelled.
C32_CloseSurvivesSiblings ==
    (/\ grp.pc \in {"returned", "raised"}
     /\ grp.first \in {"lamps", "guiders"}
     /\ ~AlreadyThere("close", status(grp.labels)))
        => grp.issued /\ grp.member["close"] # "cancelled"

\* This step marks row k of the standards data frame acquired.
MarksAcquired(k) ==
    /\ std.pc # "none"
    /\ k \in DOMAIN std'.rows
    /\ std'.rows[k].acquired = 1
    /\ \/ std.pc = "ready" /\ std'.pc = "exposing"
       \/ std.rows[k].acquired = 0

\* C35: when a row of the standards data frame is marked acquired, the
\* standard goto_coordinates was last called for on the spec telescope is
\* the standard of that row; so it is for row 1 at the start of every
\* exposure of expose(count > 1).
C35_AcquiredIsSlewTarget ==
    [][\A k \in 1 .. 4 : MarksAcquired(k) => std'.spec_target = k]_vars

\* C36: after finish_observation() has returned normally, the guide task,
\* the standards iteration task and the task of the guider monitor are
\* all finished or cancelled.
C36_NothingRunsAfterFinish ==
    (std.pc = "finished" /\ std.finish_ok)
        => /\ std.guide_task # "running"
           /\ std.task # "running"
           /\ std.monitor_task # "running"

(***************************************************************************)
(* GuiderMonitor                                                           *)
(*                                                                         *)
(* The monitor task owns a task that appends every guider record to the    *)
(* list _current_data.  A record is modelled by the collection period it   *)
(* was received in and its frame number; one telescope is followed.        *)
(* restart() is called by acquire() and before every exposure but the      *)
(* first; update_data() and to_header() are called by the pre-readout hook *)
(* of each exposure.  The new monitor task empties _current_data when it   *)
(* starts, which is before the caller of restart() gets to its exposure.   *)
(***************************************************************************)

monRest == <<owVars, domeVars, notVars, obsVars, std, ptg, fan, ract, tilec,
            act, grp>>

\* The collection periods followed, and the frame numbers of the records
\* that can arrive in one period.
Periods == 1 .. 3
FrameNumbers == 1 .. 3

\* guider_data is None, or the data frame built from a list of records.
NoData == [frame |-> FALSE, records |-> <<>>]
DataFrame(records) == [frame |-> TRUE, records |-> records]

\* GuiderMonitor.update_data: the data frame is rebuilt from the records
\* collected, when there are any.
update_data(guider_data, current_data) ==
    IF Len(current_data) > 0 THEN DataFrame(current_data) ELSE guider_data

\* GuiderMonitor.to_header: the records the first and last frame numbers
\* are taken from; none when there is no data frame or it has fewer than
\* two records of the telescope.
HeaderFrames(guider_data) ==
    IF ~guider_data.frame \/ Len(guider_data.records) < 2 THEN {}
    ELSE {guider_data.records[i] : i \in DOMAIN guider_data.records}

\* The GortObserver and its GuiderMonitor are created.
MonitorCreated ==
    /\ gmon.pc = "none"
    /\ gmon' = [pc |-> "up", guider_task |-> "none", guider_data |-> NoData,
                current_data |-> <<>>, period |-> 0,
                header |-> {}, headers |-> 0]
    /\ UNCHANGED monRest

\* GuiderMonitor.restart: guider_data is dropped; stop() cancels the
\* monitor task, whose CancelledError handler calls update_data(); start()
\* creates the new task, which empties _current_data.
MonitorRestart ==
    /\ gmon.pc = "up"
    /\ gmon.period + 1 \in Periods
    /\ gmon' = [gmon EXCEPT
                  !.guider_data =
                      IF gmon.guider_task = "running"
                      THEN update_data(NoData, gmon.current_data)
                      ELSE NoData,
                  !.guider_task = "running",
                  !.current_data = <<>>,
                  !.period = @ + 1]
    /\ UNCHANGED monRest

\* build_guider_reply_list appends a record to _current_data.
GuiderRecord ==
    /\ gmon.pc = "up"
    /\ gmon.guider_task = "running"
    /\ Len(gmon.current_data) + 1 \in FrameNumbers
    /\ gmon' = [gmon EXCEPT
                  !.current_data =
                      Append(@, [period |-> gmon.period,
                                 frameno |-> Len(gmon.current_data) + 1])]
    /\ UNCHANGED monRest

\* _pre_readout: guider_monitor.update_data() and to_header().
MonitorHeader ==
    /\ gmon.pc = "up"
    /\ gmon.guider_task = "running"
    /\ gmon.headers < gmon.period
    /\ \E data \in {update_data(gmon.guider_data, gmon.current_data)} :
         gmon' = [gmon EXCEPT !.guider_data = data,
                              !.header = HeaderFrames(data),
                              !.headers = gmon.period]
    /\ UNCHANGED monRest

InitMonitor == InitObserver

NextMonitor ==
    \/ MonitorCreated
    \/ MonitorRestart
    \/ GuiderRecord
    \/ MonitorHeader

SpecMonitor == InitMonitor /\ [][NextMonitor]_vars

\* C37: the header built in a collection period reports frame numbers
\* only from records received since the restart that began the period,
\* and none when no record was received since.
C37_HeaderFromCurrentPeriod ==
    (gmon.pc = "up" /\ gmon.headers = gmon.period)
        => /\ \A r \in gmon.header : r.period = gmon.period
           /\ gmon.current_data = <<>> => gmon.header = {}

\* The call of task t has ended.
CallEnded(t) == act.pc = "up" /\ act.task[t].pc = "done"

\* The calls that hold or wait for a lock.
CallsInProgress ==
    {t \in Tasks : act.task[t].pc \notin {"idle", "done"}}

\* C40: whatever the interleaving of startup(), shutdown(), open() and
\* close(), every call made ends, and a lock is held only by a call in
\* progress: both locks are free once the calls have ended, with or
\* without an error.
C40_LocksNeverDeadlock ==
    /\ \A t \in Tasks :
         (act.pc = "up" /\ act.task[t].pc # "idle") ~> CallEnded(t)
    /\ [](act.pc = "up" =>
            /\ act.lock # 0 => act.lock \in CallsInProgress
            /\ act.move_lock # 0 => act.move_lock \in CallsInProgress)

\* A shutdown() has ended with an error and an open() has ended too, and
\* both locks are free.
C40_Witness ==
    /\ act.pc = "up"
    /\ act.lock = 0 /\ act.move_lock = 0
    /\ \E t, u \in Tasks :
         /\ act.task[t].op = "shutdown" /\ act.task[t].pc = "done"
         /\ act.task[t].raised
         /\ act.task[u].op = "open" /\ act.task[u].pc = "done"

====
